---- MODULE Spec2Model ----
(***************************************************************************)
(* Model of the Bright Choice scraper service: the change detector        *)
(* (detector/changeDetector.ts), the hash engine (detector/hashEngine.ts), *)
(* the normalizer (attributeMap.ts, unitConverter.ts, validator.ts), the   *)
(* geo resolver and the orchestrator (index.ts), over the tables of the    *)
(* competitive-intelligence schema.                                        *)
(***************************************************************************)
EXTENDS Integers, Sequences, FiniteSets, TLC

\* ---------------------------------------------------------------- bounds
\* Calls of processProductChange one behaviour makes.
MaxCalls == 2
\* Raw products one scrape run handles.
MaxRaw == 2

\* ------------------------------------------------------- JavaScript values
\* A JavaScript value: undefined, null, a number (n, in thousandths), a
\* string (s, its characters) or a boolean (n = 1 for true).
Undef == [t |-> "undefined", n |-> 0, s |-> <<>>]
Null == [t |-> "null", n |-> 0, s |-> <<>>]
Num(n) == [t |-> "number", n |-> n, s |-> <<>>]
Str(s) == [t |-> "string", n |-> 0, s |-> s]
Bool(b) == [t |-> "boolean", n |-> IF b THEN 1 ELSE 0, s |-> <<>>]
\* A whole number of units.
N(i) == Num(i * 1000)
\* The number NaN.
NaN == [t |-> "number", n |-> 0, s |-> <<"NaN">>]

\* A nullable string the code produces: null, or the text str.
NullStr == [null |-> TRUE, str |-> ""]
SomeStr(s) == [null |-> FALSE, str |-> s]

IsNullish(v) == v.t \in {"null", "undefined"}

\* The characters of a string value, as one text.
RECURSIVE Flatten(_)
Flatten(cs) == IF cs = <<>> THEN "" ELSE Head(cs) \o Flatten(Tail(cs))

\* Number.prototype.toString of n thousandths: the decimals without
\* trailing zeros.
NumToString(n) ==
    LET a == IF n < 0 THEN 0 - n ELSE n
        f == a % 1000
        frac == IF f % 100 = 0 THEN ToString(f \div 100)
                ELSE IF f % 10 = 0
                THEN ToString(f \div 100) \o ToString((f \div 10) % 10)
                ELSE ToString(f \div 100) \o ToString((f \div 10) % 10)
                     \o ToString(f % 10)
        body == IF f = 0 THEN ToString(a \div 1000)
                ELSE ToString(a \div 1000) \o "." \o frac
    IN  IF n < 0 THEN "-" \o body ELSE body

\* String(v), also what a template literal renders.
JString(v) ==
    CASE v.t = "undefined" -> "undefined"
      [] v.t = "null" -> "null"
      [] v.t = "number" -> IF v = NaN THEN "NaN" ELSE NumToString(v.n)
      [] v.t = "string" -> Flatten(v.s)
      [] v.t = "boolean" -> IF v.n = 1 THEN "true" ELSE "false"

\* ------------------------------------------------------ JavaScript objects
\* An object is the sequence of its <<key, value>> entries in insertion
\* order, no key twice.
Keys(o) == [i \in 1..Len(o) |-> o[i][1]]
KeySet(o) == {o[i][1] : i \in 1..Len(o)}
Get(o, k) ==
    IF k \in KeySet(o)
    THEN LET i == CHOOSE j \in 1..Len(o) : o[j][1] = k IN o[i][2]
    ELSE Undef

\* The fields of a spec snapshot, in the order buildSpecSnapshot writes them.
SnapshotFields ==
    <<"watts", "lumens", "efficiency", "cct", "cri", "lifespan", "warranty",
      "price", "cert_ul", "cert_dlc", "cert_energy_star">>
FieldSet == {SnapshotFields[i] : i \in 1..Len(SnapshotFields)}

\* Every key of the model in Array.prototype.sort (code unit) order.
KeyOrder ==
    <<"a", "b", "c", "cct", "cert_dlc", "cert_energy_star", "cert_ul", "cri",
      "efficiency", "lifespan", "lumens", "price", "warranty", "watts">>

\* buildSpecSnapshot(product): the eleven fields, undefined where absent.
buildSpecSnapshot(product) ==
    [i \in 1..Len(SnapshotFields) |->
        <<SnapshotFields[i], product.f[SnapshotFields[i]]>>]

\* ------------------------------------------------------------ hash engine
Whitespace == {" ", "\t", "\n"}
\* String.prototype.toLowerCase on one character, on a text.
LowerChar(c) ==
    CASE c = "A" -> "a" [] c = "B" -> "b" [] c = "C" -> "c" [] c = "D" -> "d"
      [] c = "E" -> "e" [] c = "F" -> "f" [] c = "G" -> "g" [] c = "H" -> "h"
      [] c = "I" -> "i" [] c = "J" -> "j" [] c = "K" -> "k" [] c = "L" -> "l"
      [] c = "M" -> "m" [] c = "N" -> "n" [] c = "O" -> "o" [] c = "P" -> "p"
      [] c = "Q" -> "q" [] c = "R" -> "r" [] c = "S" -> "s" [] c = "T" -> "t"
      [] c = "U" -> "u" [] c = "V" -> "v" [] c = "W" -> "w" [] c = "X" -> "x"
      [] c = "Y" -> "y" [] c = "Z" -> "z" [] OTHER -> c
ToLower(cs) == [i \in 1..Len(cs) |-> LowerChar(cs[i])]
\* String.prototype.trim
RECURSIVE Trim(_)
Trim(cs) ==
    IF cs # <<>> /\ Head(cs) \in Whitespace THEN Trim(Tail(cs))
    ELSE IF cs # <<>> /\ cs[Len(cs)] \in Whitespace
    THEN Trim(SubSeq(cs, 1, Len(cs) - 1))
    ELSE cs

\* Math.round(value * 100) / 100 on n thousandths.
Round2(n) == ((n + 5) \div 10) * 10

\* Mutant: the keys are taken in insertion order.
SortedKeysUnsorted(o) == Keys(o)
\* Object.keys(specs).sort()
SortedKeys(o) == SelectSeq(KeyOrder, LAMBDA k : k \in KeySet(o))

\* Mutant: numbers are hashed as they are, unrounded.
NormalizeValueUnrounded(v) ==
    CASE v.t = "string" -> Str(ToLower(Trim(v.s)))
      [] OTHER -> v
\* The value generateSpecHash keeps for one entry (null and undefined are
\* not kept: see KeptKeys).
NormalizeValue(v) ==
    CASE v.t = "string" -> Str(ToLower(Trim(v.s)))
      [] v.t = "number" -> IF v = NaN THEN NaN ELSE Num(Round2(v.n))
      [] OTHER -> v
KeptKeys(o) == SelectSeq(SortedKeys(o), LAMBDA k : ~IsNullish(Get(o, k)))

\* JSON.stringify of the kept entries: a string in quotes (the texts of the
\* model hold nothing to escape), NaN as null, any other value as String
\* renders it.
RECURSIVE JsonEntries(_, _)
JsonEntries(o, ks) ==
    IF ks = <<>> THEN ""
    ELSE LET v == NormalizeValue(Get(o, Head(ks)))
             json == IF v.t = "string" THEN "\"" \o Flatten(v.s) \o "\""
                     ELSE IF v = NaN THEN "null" ELSE JString(v)
         IN  "\"" \o Head(ks) \o "\":" \o json
             \o (IF Len(ks) > 1 THEN "," ELSE "") \o JsonEntries(o, Tail(ks))
\* JSON.stringify(normalized)
CanonicalJson(o) == "{" \o JsonEntries(o, KeptKeys(o)) \o "}"

\* createHash('sha256').update(json).digest('hex'), the digest taken as
\* collision-free: it is named by the text it digests.
Sha256Hex(json) == "sha256:" \o json

generateSpecHash(specs) == Sha256Hex(CanonicalJson(specs))

\* ---------------------------------------------------------- detectChanges
\* Mutant: null and undefined are stringified like any other value.
StringifyAll(v) == SomeStr(JString(v))
\* oldVal !== null && oldVal !== undefined ? String(oldVal) : null
Stringify(v) == IF IsNullish(v) THEN NullStr ELSE SomeStr(JString(v))

\* The loop of detectChanges over the keys ks.
RECURSIVE CollectChanges(_, _, _)
CollectChanges(existing, incoming, ks) ==
    IF ks = <<>> THEN <<>>
    ELSE LET key == Head(ks)
             oldStr == Stringify(Get(existing, key))
             newStr == Stringify(Get(incoming, key))
             rest == CollectChanges(existing, incoming, Tail(ks))
         IN  IF oldStr # newStr
             THEN <<[fieldName |-> key, oldValue |-> oldStr, newValue |-> newStr]>> \o rest
             ELSE rest

\* The result of detectChanges: null, or the list of changes.
NullChanges == [null |-> TRUE, list |-> <<>>]
\* allKeys is new Set([...Object.keys(existing), ...Object.keys(incoming)])
\* in iteration order.
detectChanges(existing, incoming) ==
    LET allKeys == Keys(existing)
                   \o SelectSeq(Keys(incoming), LAMBDA k : k \notin KeySet(existing))
        changes == CollectChanges(existing, incoming, allKeys)
    IN  IF Len(changes) > 0 THEN [null |-> FALSE, list |-> changes] ELSE NullChanges

\* changes.map(c => `${c.fieldName}: ${c.oldValue} → ${c.newValue}`)
\* .join('; '), a null value rendered "null".
RECURSIVE JoinLines(_)
JoinLines(cs) ==
    IF cs = <<>> THEN ""
    ELSE LET c == Head(cs)
             old == IF c.oldValue.null THEN "null" ELSE c.oldValue.str
             new == IF c.newValue.null THEN "null" ELSE c.newValue.str
         IN  c.fieldName \o ": " \o old \o " → " \o new
             \o (IF Len(cs) > 1 THEN "; " ELSE "") \o JoinLines(Tail(cs))
\* changes ? changes.map(...).join('; ') : 'Initial version'
ChangeSummary(changes) ==
    IF ~changes.null THEN JoinLines(changes.list) ELSE "Initial version"

\* ------------------------------------------------------------ normalizer
Digits == <<"0", "1", "2", "3", "4", "5", "6", "7", "8", "9">>
DigitSet == {Digits[i] : i \in 1..Len(Digits)}
DigitVal(c) == (CHOOSE i \in 1..Len(Digits) : Digits[i] = c) - 1
MinOf(S) == CHOOSE m \in S : \A x \in S : m <= x
MaxOf(S) == CHOOSE m \in S : \A x \in S : x <= m

\* The last index of the run of characters of C that starts at i in cs
\* (i - 1 if there is none): where a greedy [C]* stops.
RunEnd(cs, i, C) ==
    LET S == {j \in i..Len(cs) : \A k \in i..j : cs[k] \in C}
    IN  IF S = {} THEN i - 1 ELSE MaxOf(S)
RECURSIVE DigitsValue(_)
DigitsValue(ds) ==
    IF ds = <<>> THEN 0
    ELSE DigitsValue(SubSeq(ds, 1, Len(ds) - 1)) * 10 + DigitVal(ds[Len(ds)])
\* The decimals ds in thousandths (numbers carry three decimals).
FractionThousandths(ds) == DigitsValue(SubSeq(ds \o <<"0", "0", "0">>, 1, 3))

\* extractNumeric(value): parseFloat of the leftmost /-?\d+(\.\d+)?/ of
\* the text without its commas, or null.
extractNumeric(value) ==
    LET cleaned == SelectSeq(value, LAMBDA c : c # ",")
        starts == {i \in 1..Len(cleaned) :
                     \/ cleaned[i] \in DigitSet
                     \/ cleaned[i] = "-" /\ i < Len(cleaned) /\ cleaned[i + 1] \in DigitSet}
        \* the match whose digits run from d to e, negative or not
        Match(neg, d, e) ==
            LET hasFrac == /\ e + 2 <= Len(cleaned)
                           /\ cleaned[e + 1] = "."
                           /\ cleaned[e + 2] \in DigitSet
                frac == IF hasFrac
                        THEN FractionThousandths(
                                 SubSeq(cleaned, e + 2, RunEnd(cleaned, e + 2, DigitSet)))
                        ELSE 0
                mag == DigitsValue(SubSeq(cleaned, d, e)) * 1000 + frac
            IN  Num(IF neg THEN 0 - mag ELSE mag)
        From(neg, d) == Match(neg, d, RunEnd(cleaned, d, DigitSet))
        At(i) == From(cleaned[i] = "-", IF cleaned[i] = "-" THEN i + 1 ELSE i)
    IN  IF starts = {} THEN Null ELSE At(MinOf(starts))

\* extractUnit(value): group 1 of the leftmost match of /[\d.]+\s*(.+)/ in
\* the trimmed text without commas, trimmed; '' without a match. The group
\* ends at a line terminator; when the run of [\d.] ends the text, the
\* match gives its last character back to the group.
extractUnit(value) ==
    LET cleaned == Trim(SelectSeq(value, LAMBDA c : c # ","))
        NumChars == DigitSet \cup {"."}
        S == {i \in 1..Len(cleaned) : cleaned[i] \in NumChars}
    IN  IF S = {} THEN <<>>
        ELSE LET i == MinOf(S)
                 j == RunEnd(cleaned, i, NumChars)
                 k == RunEnd(cleaned, j + 1, Whitespace)
                 rest == SubSeq(cleaned, k + 1, Len(cleaned))
                 line == RunEnd(rest, 1, {rest[n] : n \in 1..Len(rest)} \ {"\n"})
             IN  IF rest # <<>> THEN Trim(SubSeq(rest, 1, line))
                 ELSE IF k > j THEN <<>>
                 ELSE IF j > i THEN <<cleaned[j]>>
                 ELSE <<>>

\* CONVERSIONS: each rule's pattern as the lowercase texts it accepts whole
\* (exact), at the start (prefix), anywhere (inside) or at the end (suffix),
\* its target unit and its factor as the fraction num / den.
Rule(exact, prefix, inside, suffix, to, num, den) ==
    [exact |-> exact, prefix |-> prefix, inside |-> inside, suffix |-> suffix,
     to |-> to, num |-> num, den |-> den]
CONVERSIONS ==
    <<Rule({"kw"}, {}, {}, {}, <<"W">>, 1000, 1),
      Rule({}, {"kilowatt"}, {}, {}, <<"W">>, 1000, 1),
      Rule({"klm"}, {}, {}, {}, <<"l", "m">>, 1000, 1),
      Rule({}, {"kilolumen"}, {}, {}, <<"l", "m">>, 1000, 1),
      Rule({"year", "years"}, {}, {}, {}, <<"h", "o", "u", "r", "s">>, 8760, 1),
      Rule({"lb", "lbs"}, {}, {}, {}, <<"k", "g">>, 4536, 10000),
      Rule({}, {"pound"}, {}, {}, <<"k", "g">>, 4536, 10000),
      Rule({"oz"}, {}, {}, {}, <<"k", "g">>, 2835, 100000),
      Rule({"mm"}, {}, {}, {}, <<"m", "m">>, 1, 1),
      Rule({"cm"}, {}, {}, {}, <<"m", "m">>, 10, 1),
      Rule({"in", "inch", "inches"}, {}, {}, {}, <<"m", "m">>, 254, 10),
      Rule({}, {"ft"}, {"feet"}, {"foot"}, <<"m", "m">>, 3048, 10)>>
\* rule.from.test(sourceUnit), the patterns being case-insensitive
RuleMatches(rule, sourceUnit) ==
    LET u == ToLower(sourceUnit)
        Part(i, j) == Flatten(SubSeq(u, i, j))
    IN  \/ Flatten(u) \in rule.exact
        \/ \E j \in 1..Len(u) : Part(1, j) \in rule.prefix
        \/ \E i, j \in 1..Len(u) : i <= j /\ Part(i, j) \in rule.inside
        \/ \E i \in 1..Len(u) : Part(i, Len(u)) \in rule.suffix

\* convertUnit comparing the two units as written.
convertUnitCaseSensitive(value, sourceUnit, targetUnit) ==
    IF sourceUnit = targetUnit THEN Num(value)
    ELSE LET S == {i \in 1..Len(CONVERSIONS) :
                      /\ RuleMatches(CONVERSIONS[i], sourceUnit)
                      /\ ToLower(CONVERSIONS[i].to) = ToLower(targetUnit)}
         IN  IF S # {}
             THEN LET rule == CONVERSIONS[MinOf(S)]
                  IN  Num(((2 * value * rule.num + 10 * rule.den)
                           \div (20 * rule.den)) * 10)
             ELSE Null

\* convertUnit(value, sourceUnit, targetUnit): the number, or null; value
\* in thousandths, Math.round(value * rule.factor * 100) / 100.
convertUnit(value, sourceUnit, targetUnit) ==
    IF ToLower(sourceUnit) = ToLower(targetUnit) THEN Num(value)
    ELSE LET S == {i \in 1..Len(CONVERSIONS) :
                      /\ RuleMatches(CONVERSIONS[i], sourceUnit)
                      /\ ToLower(CONVERSIONS[i].to) = ToLower(targetUnit)}
         IN  IF S # {}
             THEN LET rule == CONVERSIONS[MinOf(S)]
                  IN  Num(((2 * value * rule.num + 10 * rule.den)
                           \div (20 * rule.den)) * 10)
             ELSE Null

\* parseAndConvert(rawValue, targetUnit): null, or {value, unit}.
parseAndConvert(rawValue, targetUnit) ==
    LET Result(numeric, sourceUnit, converted) ==
            IF numeric = Null THEN [null |-> TRUE, value |-> Null, unit |-> <<>>]
            ELSE IF sourceUnit = <<>>
            THEN [null |-> FALSE, value |-> numeric, unit |-> targetUnit]
            ELSE IF converted # Null
            THEN [null |-> FALSE, value |-> converted, unit |-> targetUnit]
            ELSE [null |-> FALSE, value |-> numeric, unit |-> sourceUnit]
        Convert(numeric, sourceUnit) ==
            Result(numeric, sourceUnit, convertUnit(numeric.n, sourceUnit, targetUnit))
    IN  Convert(extractNumeric(rawValue), extractUnit(rawValue))

\* ATTRIBUTE_MAP, in the order of its entries.
Mapping(standardName, unit, sourceNames) ==
    [standardName |-> standardName, unit |-> unit, sourceNames |-> sourceNames]
ATTRIBUTE_MAP ==
    <<Mapping("lumens", "lm",
          {"luminous flux", "output", "brightness", "light output", "lumen output",
           "total lumens", "delivered lumens", "initial lumens", "lumens", "lm"}),
      Mapping("watts", "W",
          {"power", "wattage", "input power", "system wattage", "system watts",
           "watts", "w", "power consumption"}),
      Mapping("efficiency", "lm/W",
          {"efficacy", "efficiency", "lm/w", "lumens per watt", "luminous efficacy",
           "system efficacy"}),
      Mapping("cct", "K",
          {"color temperature", "cct", "kelvin", "color temp",
           "correlated color temperature", "colour temperature"}),
      Mapping("cri", "",
          {"color rendering", "cri", "ra", "color rendering index",
           "colour rendering index", "cri (ra)"}),
      Mapping("lifespan", "hours",
          {"l70 lifetime", "rated life", "lifespan", "life hours", "expected life",
           "rated lifetime", "l70", "useful life"}),
      Mapping("warranty", "years", {"warranty", "warranty period", "guarantee"}),
      Mapping("ip_rating", "",
          {"ip rating", "ip", "ingress protection", "ip code", "environmental rating"}),
      Mapping("voltage", "V",
          {"voltage", "input voltage", "operating voltage", "supply voltage",
           "voltage range"}),
      Mapping("dimming", "",
          {"dimming", "dimmable", "dimming range", "dimming protocol", "dimming type"}),
      Mapping("beam_angle", "Â°",
          {"beam angle", "beam spread", "beam distribution", "distribution", "optic"}),
      Mapping("weight", "kg", {"weight", "net weight", "product weight"})>>

\* findMapping(sourceFieldName): the index of the first entry one of whose
\* source names is the lowercased, trimmed field name; 0 for undefined.
findMapping(sourceFieldName) ==
    LET normalized == Flatten(Trim(ToLower(sourceFieldName)))
        S == {i \in 1..Len(ATTRIBUTE_MAP) : normalized \in ATTRIBUTE_MAP[i].sourceNames}
    IN  IF S = {} THEN 0 ELSE MinOf(S)

\* key.replace(/\s+/g, '_')
RECURSIVE UnderscoreSpaces(_)
UnderscoreSpaces(cs) ==
    IF cs = <<>> THEN <<>>
    ELSE IF Head(cs) \in Whitespace
    THEN <<"_">> \o UnderscoreSpaces(SubSeq(cs, RunEnd(cs, 1, Whitespace) + 1, Len(cs)))
    ELSE <<Head(cs)>> \o UnderscoreSpaces(Tail(cs))

\* o[k] = v: a key the object has keeps its place.
SetEntry(o, k, v) ==
    IF k \in KeySet(o)
    THEN [i \in 1..Len(o) |-> IF o[i][1] = k THEN <<k, v>> ELSE o[i]]
    ELSE Append(o, <<k, v>>)

\* mapAttributes(rawSpecs): rawSpecs lists <<field name, text>> in order;
\* an unmapped field goes under `raw_${key.toLowerCase().replace(...)}`.
RECURSIVE MapEntries(_, _)
MapEntries(rawSpecs, result) ==
    IF rawSpecs = <<>> THEN result
    ELSE LET key == Head(rawSpecs)[1]
             value == Head(rawSpecs)[2]
             mapping == findMapping(key)
             entry == IF mapping # 0
                      THEN <<ATTRIBUTE_MAP[mapping].standardName,
                             [value |-> value, unit |-> ATTRIBUTE_MAP[mapping].unit,
                              sourceField |-> key]>>
                      ELSE <<"raw_" \o Flatten(UnderscoreSpaces(ToLower(key))),
                             [value |-> value, unit |-> "", sourceField |-> key]>>
         IN  MapEntries(Tail(rawSpecs), SetEntry(result, entry[1], entry[2]))
mapAttributes(rawSpecs) == MapEntries(rawSpecs, <<>>)

\* ------------------------------------------------------------- validator
\* The longest numeric prefix of the text t (exponents are outside the
\* texts of the model): where it ends, and the number it spells or NaN.
NumericPrefix(t) ==
    LET Prefix(signed, d, e) ==
            LET hasDot == e + 1 <= Len(t) /\ t[e + 1] = "."
                fe == IF hasDot THEN RunEnd(t, e + 2, DigitSet) ELSE e
                mag == DigitsValue(SubSeq(t, d, e)) * 1000
                       + (IF hasDot THEN FractionThousandths(SubSeq(t, e + 2, fe)) ELSE 0)
            IN  [end |-> fe,
                 value |-> IF e < d /\ (~hasDot \/ fe < e + 2) THEN NaN
                           ELSE Num(IF signed /\ t[1] = "-" THEN 0 - mag ELSE mag)]
        From(signed, d) == Prefix(signed, d, RunEnd(t, d, DigitSet))
        Signed(signed) == From(signed, IF signed THEN 2 ELSE 1)
    IN  Signed(t # <<>> /\ t[1] \in {"-", "+"})
\* parseFloat(text): the numeric prefix after leading white space, or NaN.
parseFloat(cs) == NumericPrefix(Trim(cs)).value
\* Number(value): of a string, the number its whole trimmed text spells.
ToNumber(v) ==
    CASE v.t = "number" -> v
      [] v.t = "string" ->
            LET Whole(t, prefix) ==
                    IF t = <<>> THEN N(0)
                    ELSE IF prefix.end = Len(t) THEN prefix.value ELSE NaN
                Of(t) == Whole(t, NumericPrefix(t))
            IN  Of(Trim(v.s))
      [] v.t = "boolean" -> N(v.n)
      [] v.t = "null" -> N(0)
      [] OTHER -> NaN

\* The values JavaScript takes for false, and v || d.
Falsy(v) ==
    \/ IsNullish(v)
    \/ v.t = "number" /\ (v.n = 0 \/ v = NaN)
    \/ v = Str(<<>>)
    \/ v = Bool(FALSE)
OrElse(v, d) == IF Falsy(v) THEN d ELSE v

\* VALIDATION_RULES, min and max in thousandths.
ValidationRule(field, min, max, required) ==
    [field |-> field, min |-> min, max |-> max, required |-> required]
VALIDATION_RULES ==
    <<ValidationRule("watts", 1000, 2000000, TRUE),
      ValidationRule("lumens", 50000, 200000000, TRUE),
      ValidationRule("efficiency", 10000, 250000, FALSE),
      ValidationRule("cct", 2000000, 10000000, FALSE),
      ValidationRule("cri", 50000, 100000, FALSE),
      ValidationRule("lifespan", 10000000, 200000000, FALSE),
      ValidationRule("warranty", 1000, 25000, FALSE),
      ValidationRule("price", 10, 50000000, FALSE)>>

\* value === null || value === undefined || value === ''
IsMissing(value) == IsNullish(value) \/ value = Str(<<>>)

\* Mutant: a value outside its range is an error, as a missing one is.
CheckRuleRejecting(rule, value, numValue, acc) ==
    IF IsMissing(value)
    THEN IF rule.required
         THEN [acc EXCEPT !.errors = Append(@, "Missing required field: " \o rule.field)]
         ELSE acc
    ELSE IF numValue.t # "number" \/ numValue = NaN
    THEN [acc EXCEPT !.warnings =
             Append(@, "Non-numeric value for " \o rule.field \o ": " \o JString(value))]
    ELSE IF numValue.n < rule.min \/ numValue.n > rule.max
    THEN [acc EXCEPT !.errors =
             Append(@, rule.field \o " value " \o JString(numValue)
                       \o " is outside expected range ["
                       \o NumToString(rule.min) \o ", "
                       \o NumToString(rule.max) \o "]")]
    ELSE acc
\* One turn of the loop over VALIDATION_RULES: acc with the error or the
\* warning of the rule, value being product[rule.field] and numValue its
\* number.
CheckRule(rule, value, numValue, acc) ==
    IF rule.required /\ IsMissing(value)
    THEN [acc EXCEPT !.errors = Append(@, "Missing required field: " \o rule.field)]
    ELSE IF IsMissing(value) THEN acc
    ELSE IF numValue.t # "number" \/ numValue = NaN
    THEN [acc EXCEPT !.warnings =
             Append(@, "Non-numeric value for " \o rule.field \o ": " \o JString(value))]
    ELSE IF numValue.n < rule.min \/ numValue.n > rule.max
    THEN [acc EXCEPT !.warnings =
             Append(@, rule.field \o " value " \o JString(numValue)
                       \o " is outside expected range ["
                       \o NumToString(rule.min) \o ", "
                       \o NumToString(rule.max) \o "]")]
    ELSE acc
RECURSIVE CheckRules(_, _, _)
CheckRules(product, rules, acc) ==
    IF rules = <<>> THEN acc
    ELSE LET Check(rule, value) ==
                 CheckRule(rule, value,
                           IF value.t = "string" THEN parseFloat(value.s) ELSE value, acc)
             Of(rule) == Check(rule, Get(product, rule.field))
         IN  CheckRules(product, Tail(rules), Of(Head(rules)))

\* Math.round((lm / w) * 10) / 10 for positive w and lm, in thousandths.
CalcEfficiency(w, lm) == ((20 * lm + w) \div (2 * w)) * 100
\* The efficiency cross-check: its warnings.
EfficiencyWarnings(product) ==
    LET Check(w, lm, stated) ==
            IF /\ ~Falsy(Get(product, "watts")) /\ ~Falsy(Get(product, "lumens"))
               /\ w # NaN /\ lm # NaN /\ w.n > 0 /\ lm.n > 0
               /\ ~Falsy(Get(product, "efficiency"))
               /\ stated # NaN
               /\ \/ stated.n - CalcEfficiency(w.n, lm.n) > 5000
                  \/ CalcEfficiency(w.n, lm.n) - stated.n > 5000
            THEN <<"Stated efficiency (" \o JString(stated)
                   \o ") differs significantly from calculated ("
                   \o NumToString(CalcEfficiency(w.n, lm.n)) \o " lm/W)">>
            ELSE <<>>
    IN  Check(ToNumber(Get(product, "watts")), ToNumber(Get(product, "lumens")),
              ToNumber(Get(product, "efficiency")))

\* validateProduct(product)
validateProduct(product) ==
    LET Result(r) ==
            [isValid |-> Len(r.errors) = 0, errors |-> r.errors,
             warnings |-> r.warnings \o EfficiencyWarnings(product)]
    IN  Result(CheckRules(product, VALIDATION_RULES, [errors |-> <<>>, warnings |-> <<>>]))

\* ------------------------------------------------- normalization (index.ts)
\* The value the orchestrator gives the spec entry k of `normalized` from
\* the mapped text.
NormalizedValue(k, value) ==
    LET ValueOf(parsed) == IF parsed.null THEN Undef ELSE parsed.value
    IN  CASE k \in {"watts", "lumens", "cct", "cri"} ->
                OrElse(extractNumeric(value),
                       N(CASE k = "cct" -> 4000 [] k = "cri" -> 80 [] OTHER -> 0))
          [] k = "lifespan" ->
                OrElse(ValueOf(parseAndConvert(value, <<"h", "o", "u", "r", "s">>)),
                       N(25000))
          [] k = "warranty" ->
                OrElse(ValueOf(parseAndConvert(value, <<"y", "e", "a", "r", "s">>)), N(3))
          [] k = "efficiency" -> extractNumeric(value)
          [] OTHER -> Str(value)
\* The spec entries of `normalized`, in the order the orchestrator sets
\* them; its identity entries (brand, model, category, sku, product_url,
\* brand_id) are carried by the payload (see GeoPayload).
Normalize(mapped) ==
    LET ks == SelectSeq(<<"watts", "lumens", "cct", "cri", "lifespan", "warranty",
                          "efficiency", "ip_rating", "voltage", "dimming">>,
                        LAMBDA k : k \in KeySet(mapped))
    IN  [i \in 1..Len(ks) |-> <<ks[i], NormalizedValue(ks[i], Get(mapped, ks[i]).value)>>]

\* ------------------------------------------------------------------- geo
ALL_US_STATES ==
    <<"AL", "AK", "AZ", "AR", "CA", "CO", "CT", "DE", "FL", "GA",
      "HI", "ID", "IL", "IN", "IA", "KS", "KY", "LA", "ME", "MD",
      "MA", "MI", "MN", "MS", "MO", "MT", "NE", "NV", "NH", "NJ",
      "NM", "NY", "NC", "ND", "OH", "OK", "OR", "PA", "RI", "SC",
      "SD", "TN", "TX", "UT", "VT", "VA", "WA", "WV", "WI", "WY">>
ALL_CA_PROVINCES == <<"AB", "BC", "MB", "NB", "NL", "NS", "ON", "PE", "QC", "SK">>

\* A list of regions: 'ALL', or the regions named.
All == [all |-> TRUE, list |-> <<>>]
Only(list) == [all |-> FALSE, list |-> list]
\* A BrandGeo, with the entries getGeoVariants reads.
BrandGeo(sells_in_usa, usa_states, sells_in_canada, canadian_provinces) ==
    [sells_in_usa |-> sells_in_usa, usa_states |-> usa_states,
     sells_in_canada |-> sells_in_canada, canadian_provinces |-> canadian_provinces]
\* BRAND_GEO with an Acuity Brands that does not sell in Canada.
BRAND_GEO_AcuityUsaOnly ==
    ("Acuity Brands" :> BrandGeo(TRUE, All, FALSE, Only(<<>>)))
    @@ ("Cree Lighting" :> BrandGeo(TRUE, All, TRUE, Only(<<"ON", "BC", "AB", "QC">>)))
    @@ ("Philips" :> BrandGeo(TRUE, All, TRUE, All))
    @@ ("GE Current" :> BrandGeo(TRUE, All, TRUE, Only(<<"ON", "BC", "AB", "QC">>)))
    @@ ("Lithonia Lighting" :> BrandGeo(TRUE, All, TRUE, Only(<<"ON", "BC", "AB", "QC">>)))
    @@ ("Leviton" :> BrandGeo(TRUE, All, TRUE, Only(<<"ON", "BC", "AB", "QC", "MB">>)))
    @@ ("Hubbell Lighting" :> BrandGeo(TRUE, All, TRUE, Only(<<"ON", "BC", "AB", "QC">>)))
    @@ ("RAB Lighting" :> BrandGeo(TRUE, All, TRUE, Only(<<"ON", "BC", "AB", "QC", "MB", "SK">>)))
    @@ ("Lumenera" :> BrandGeo(TRUE, Only(<<"CA", "TX", "FL", "NY", "IL", "WA", "OR">>), TRUE, All))

BRAND_GEO ==
    ("Acuity Brands" :> BrandGeo(TRUE, All, TRUE, Only(<<"ON", "BC", "AB", "QC", "MB", "SK">>)))
    @@ ("Cree Lighting" :> BrandGeo(TRUE, All, TRUE, Only(<<"ON", "BC", "AB", "QC">>)))
    @@ ("Philips" :> BrandGeo(TRUE, All, TRUE, All))
    @@ ("GE Current" :> BrandGeo(TRUE, All, TRUE, Only(<<"ON", "BC", "AB", "QC">>)))
    @@ ("Lithonia Lighting" :> BrandGeo(TRUE, All, TRUE, Only(<<"ON", "BC", "AB", "QC">>)))
    @@ ("Leviton" :> BrandGeo(TRUE, All, TRUE, Only(<<"ON", "BC", "AB", "QC", "MB">>)))
    @@ ("Hubbell Lighting" :> BrandGeo(TRUE, All, TRUE, Only(<<"ON", "BC", "AB", "QC">>)))
    @@ ("RAB Lighting" :> BrandGeo(TRUE, All, TRUE, Only(<<"ON", "BC", "AB", "QC", "MB", "SK">>)))
    @@ ("Lumenera" :> BrandGeo(TRUE, Only(<<"CA", "TX", "FL", "NY", "IL", "WA", "OR">>), TRUE, All))
\* The names BRAND_GEO, an object literal, inherits from Object.prototype:
\* BRAND_GEO[name] is then a function or an object, not undefined, and has
\* no sells_in_usa and no sells_in_canada.
Inherited ==
    {"constructor", "toString", "toLocaleString", "valueOf", "hasOwnProperty",
     "isPrototypeOf", "propertyIsEnumerable", "__proto__"}
\* getBrandGeo(brandName): BRAND_GEO[brandName] ?? the USA-only fallback
\* (an entry read as undefined is FALSE here: getGeoVariants tests it).
getBrandGeo(brandName) ==
    IF brandName \in DOMAIN BRAND_GEO THEN BRAND_GEO[brandName]
    ELSE IF brandName \in Inherited THEN BrandGeo(FALSE, Only(<<>>), FALSE, Only(<<>>))
    ELSE BrandGeo(TRUE, All, FALSE, Only(<<>>))

GeoVariant(state_province, currency, country) ==
    [state_province |-> state_province, currency |-> currency, country |-> country]
\* getGeoVariants expanding every list as if it were 'ALL'.
getGeoVariantsAll(brandName) ==
    LET geo == getBrandGeo(brandName)
    IN  (IF geo.sells_in_usa
         THEN [i \in 1..Len(ALL_US_STATES) |-> GeoVariant(ALL_US_STATES[i], "USD", "USA")]
         ELSE <<>>)
        \o (IF geo.sells_in_canada
            THEN [i \in 1..Len(ALL_CA_PROVINCES) |->
                      GeoVariant(ALL_CA_PROVINCES[i], "CAD", "Canada")]
            ELSE <<>>)

\* getGeoVariants(brandName)
getGeoVariants(brandName) ==
    LET geo == getBrandGeo(brandName)
        states == IF geo.usa_states.all THEN ALL_US_STATES ELSE geo.usa_states.list
        provinces == IF geo.canadian_provinces.all THEN ALL_CA_PROVINCES
                     ELSE geo.canadian_provinces.list
    IN  (IF geo.sells_in_usa
         THEN [i \in 1..Len(states) |-> GeoVariant(states[i], "USD", "USA")] ELSE <<>>)
        \o (IF geo.sells_in_canada
            THEN [i \in 1..Len(provinces) |-> GeoVariant(provinces[i], "CAD", "Canada")]
            ELSE <<>>)

\* A nullable string is truthy: defined and not empty.
TruthyStr(x) == ~x.null /\ x.str # ""
\* The rows of the brand's table, whatever the product's hint.
variantsToInsertFanOut(brandName, geo) == getGeoVariants(brandName)

\* The rows to insert for one product (index.ts 113-123).
variantsToInsert(brandName, geo) ==
    LET geoVariants == getGeoVariants(brandName)
        filteredVariants ==
            IF TruthyStr(geo.country)
            THEN SelectSeq(geoVariants, LAMBDA v : v.country = geo.country.str)
            ELSE geoVariants
    IN  IF TruthyStr(geo.state_province)
        THEN <<GeoVariant(geo.state_province.str,
                          IF geo.country = SomeStr("Canada") THEN "CAD" ELSE "USD",
                          IF geo.country.null THEN "USA" ELSE geo.country.str)>>
        ELSE filteredVariants

\* ------------------------------------------------------------- storage
\* efficiency NUMERIC GENERATED ALWAYS AS (CASE WHEN watts > 0 THEN
\* ROUND(lumens / watts, 1) ELSE 0 END), in thousandths.
GeneratedEfficiency(watts, lumens) ==
    IF watts > 0 THEN ((20 * lumens + watts) \div (2 * watts)) * 100 ELSE 0

\* The spec fields the Admin page saves (Admin.tsx handleSave): every core
\* column and the price; the hash column is left NULL.
AdminFields(price) ==
    [k \in FieldSet |->
        CASE k = "watts" -> N(10) [] k = "lumens" -> N(800)
          [] k = "efficiency" -> Num(GeneratedEfficiency(10000, 800000))
          [] k = "cct" -> N(4000) [] k = "cri" -> N(80)
          [] k = "lifespan" -> N(25000) [] k = "warranty" -> N(3)
          [] k = "price" -> N(price)
          [] OTHER -> Bool(FALSE)]

\* What the orchestrator builds from a scraped page: no price, no
\* certification flags (index.ts 73-98).
ScrapedFields(watts) ==
    [k \in FieldSet |->
        CASE k = "watts" -> N(watts) [] k = "lumens" -> N(800)
          [] k = "cct" -> N(4000) [] k = "cri" -> N(80)
          [] k = "lifespan" -> N(25000) [] k = "warranty" -> N(3)
          [] OTHER -> Undef]

\* The row PostgreSQL keeps for an inserted payload: an absent column takes
\* its default (false for the flags, 80, 25000 and 3 for cri, lifespan and
\* warranty, NULL for cct), the efficiency column is generated.
StoredFields(f) ==
    [k \in FieldSet |->
        CASE k \in {"cert_ul", "cert_dlc", "cert_energy_star"} ->
                IF IsNullish(f[k]) THEN Bool(FALSE) ELSE f[k]
          [] k = "efficiency" -> Num(GeneratedEfficiency(f["watts"].n, f["lumens"].n))
          [] k = "cri" -> IF f[k] = Undef THEN N(80) ELSE f[k]
          [] k = "lifespan" -> IF f[k] = Undef THEN N(25000) ELSE f[k]
          [] k = "warranty" -> IF f[k] = Undef THEN N(3) ELSE f[k]
          [] OTHER -> IF IsNullish(f[k]) THEN Null ELSE f[k]]

ProductRow(id, brand, model, state, f, hash, at) ==
    [id |-> id, brand |-> brand, model |-> model, state_province |-> state,
     currency |-> "USD", spec_hash |-> hash, last_scraped_at |-> at, f |-> f]

\* The fields of a row the orchestrator's insert leaves (index.ts 146-156).
InsertedFields(f) == StoredFields([f EXCEPT !["price"] = N(0)])

\* The products table a run may start from: a row as the Admin page leaves
\* it (no hash) and a row as the orchestrator's insert leaves it.
InitTables ==
    {<<ProductRow(1, "Cree Lighting", "M1", "CA", AdminFields(150), NullStr, 0),
       ProductRow(2, "Cree Lighting", "M1", "TX", InsertedFields(ScrapedFields(10)),
                  SomeStr(generateSpecHash(buildSpecSnapshot([f |-> ScrapedFields(10)]))),
                  0)>>}

\* The incoming specs handed to processProductChange.
IncomingSpecs ==
    {[f |-> AdminFields(150)], [f |-> AdminFields(165)], [f |-> ScrapedFields(10)]}

Workers == {1, 2}

VARIABLES
    products,       \* the products table: row id = index
    versions,       \* the product_versions table: row id = index
    change_logs,    \* the change_logs table
    inv,            \* per worker: the processProductChange call it is in
    hist,           \* the last two calls that returned, oldest first
    calls,          \* calls made so far; also the clock of new Date()
    env,            \* which workers run, and whether storage calls may fail
    pure,           \* a pure function under check: its arguments and result
    run,            \* the call of processBrand: its position, locals and stats
    scrape_runs,    \* the scrape_runs table: row id = index
    raw_scraped_data, \* the raw_scraped_data table
    retry,          \* a call of BaseScraper.execute: its position and locals
    user_roles,     \* the user_roles table
    rpc             \* per session: the claim_first_admin call it is in

storage == <<products, versions, change_logs>>
brandVars == <<run, scrape_runs, raw_scraped_data>>
outside == <<retry, user_roles, rpc>>
vars ==
    <<products, versions, change_logs, inv, hist, calls, env, pure, run, scrape_runs,
      raw_scraped_data, retry, user_roles, rpc>>

\* A worker outside any call.
NoCall ==
    [pc |-> "idle", productId |-> 0, existing |-> ProductRow(0, "", "", "", [k \in FieldSet |-> Undef], NullStr, 0),
     incoming |-> [f |-> [k \in FieldSet |-> Undef]], oldHash |-> NullStr, newHash |-> "",
     nextVersion |-> 0, changes |-> NullChanges, changeSummary |-> "",
     versionId |-> 0, versionError |-> FALSE, logError |-> FALSE,
     updateError |-> FALSE, logsWritten |-> 0, updated |-> FALSE,
     versionsAtEntry |-> 0, logsAtEntry |-> 0,
     ret |-> [isNew |-> FALSE, isChanged |-> FALSE]]

\* Whether a storage call succeeds: the environment's choice.
Outcomes == IF env.faults THEN {TRUE, FALSE} ELSE {TRUE}

\* Mutant: the early return is never taken.
NoChangeNever(oldHash, newHash) == FALSE
\* if (oldHash === newHash)
NoChange(oldHash, newHash) == oldHash = SomeStr(newHash)

\* select('version_number').eq('product_id', productId).order(desc).limit(1)
\* .single(): the row of the highest version, or no data.
VersionNumbers(vs, productId) ==
    {vs[i].version_number : i \in {j \in 1..Len(vs) : vs[j].product_id = productId}}
LatestVersion(vs, productId, ok) ==
    IF ok /\ VersionNumbers(vs, productId) # {}
    THEN [found |-> TRUE, version_number |-> MaxOf(VersionNumbers(vs, productId))]
    ELSE [found |-> FALSE, version_number |-> 0]

\* (latestVersion?.version_number || 0) + 1
NextVersionNumber(latestVersion) ==
    (IF latestVersion.found /\ latestVersion.version_number # 0
     THEN latestVersion.version_number ELSE 0) + 1

\* The request body of a snapshot: JSON.stringify leaves undefined entries out.
JsonBody(o) == SelectSeq(o, LAMBDA e : e[2].t # "undefined")

\* Mutant: the table has no uniqueness constraint.
UniqueViolationNone(vs, productId, versionNumber) == FALSE
\* UNIQUE (product_id, version_number)
UniqueViolation(vs, productId, versionNumber) ==
    \E i \in 1..Len(vs) :
        vs[i].product_id = productId /\ vs[i].version_number = versionNumber

\* Mutant: a failed version insert is logged and the call goes on.
AbortsOnVersionErrorNever(versionError) == FALSE
\* if (versionError) return { isNew: false, isChanged: false }
AbortsOnVersionError(versionError) == versionError

\* Mutant: the last change is left out of the entries.
ChangeLogEntriesShort(productId, versionId, list) ==
    [i \in 1..(Len(list) - 1) |->
        [product_id |-> productId, product_version_id |-> versionId,
         field_name |-> list[i].fieldName, old_value |-> list[i].oldValue,
         new_value |-> list[i].newValue]]
\* changes.map(c => ({product_id, product_version_id: versionData.id, ...}))
ChangeLogEntries(productId, versionId, list) ==
    [i \in 1..Len(list) |->
        [product_id |-> productId, product_version_id |-> versionId,
         field_name |-> list[i].fieldName, old_value |-> list[i].oldValue,
         new_value |-> list[i].newValue]]

\* Mutant: a failed change-log insert ends the call.
ContinuesAfterLogErrorOnlyOk(logError) == ~logError
\* if (logError) logger.error(...): the call goes on to the update.
ContinuesAfterLogError(logError) == TRUE

\* Mutant: the update writes the timestamp and not the hash.
UpdatedRowStampOnly(row, newHash, at) == [row EXCEPT !.last_scraped_at = at]
\* update({ spec_hash: newHash, last_scraped_at: new Date().toISOString() })
UpdatedRow(row, newHash, at) ==
    [row EXCEPT !.spec_hash = SomeStr(newHash), !.last_scraped_at = at]

\* The call c returns: it is the newest entry of hist.
Return(w, c, isChanged) ==
    LET r == [c EXCEPT !.pc = "returned",
                       !.ret = [isNew |-> FALSE, isChanged |-> isChanged]]
        h == Append(hist, r)
    IN  /\ inv' = [inv EXCEPT ![w] = r]
        /\ hist' = IF Len(h) > 2 THEN Tail(h) ELSE h

\* processProductChange up to its first storage call (lines 59-73).
Enter(w, productId, existingProduct, incomingSpecs) ==
    LET incomingSnapshot == buildSpecSnapshot(incomingSpecs)
        newHash == generateSpecHash(incomingSnapshot)
        oldHash == existingProduct.spec_hash
        c == [NoCall EXCEPT !.productId = productId, !.existing = existingProduct,
                            !.incoming = incomingSpecs, !.oldHash = oldHash,
                            !.newHash = newHash, !.versionsAtEntry = Len(versions),
                            !.logsAtEntry = Len(change_logs)]
    IN  /\ calls' = calls + 1
        /\ IF NoChange(oldHash, newHash)
           THEN Return(w, c, FALSE)
           ELSE /\ inv' = [inv EXCEPT ![w] = [c EXCEPT !.pc = "latest"]]
                /\ UNCHANGED hist
        /\ UNCHANGED <<storage, env, outside, pure>>

\* A caller reads a product row and hands it, with incoming specs, to
\* processProductChange.
Call(w) ==
    /\ w \in env.active
    /\ inv[w].pc \in {"idle", "returned"}
    /\ calls < MaxCalls
    /\ \E productId \in 1..Len(products), incomingSpecs \in IncomingSpecs :
          Enter(w, productId, products[productId], incomingSpecs)
    /\ UNCHANGED brandVars

\* Get latest version number (lines 75-84).
ReadLatest(w) ==
    /\ inv[w].pc = "latest"
    /\ \E ok \in Outcomes :
          LET latestVersion == LatestVersion(versions, inv[w].productId, ok)
          IN  inv' = [inv EXCEPT ![w].pc = "insert",
                                 ![w].nextVersion = NextVersionNumber(latestVersion)]
    /\ UNCHANGED <<storage, hist, calls, env, outside, pure, brandVars>>

\* Detect field-level changes and insert the new version (lines 86-108).
InsertVersion(w) ==
    /\ inv[w].pc = "insert"
    /\ \E ok \in Outcomes :
          LET c == inv[w]
              existingSnapshot == buildSpecSnapshot(c.existing)
              incomingSnapshot == buildSpecSnapshot(c.incoming)
              changes == detectChanges(existingSnapshot, incomingSnapshot)
              changeSummary == ChangeSummary(changes)
              versionError ==
                  ~ok \/ UniqueViolation(versions, c.productId, c.nextVersion)
              row == [id |-> Len(versions) + 1, product_id |-> c.productId,
                      version_number |-> c.nextVersion,
                      snapshot |-> JsonBody(incomingSnapshot),
                      spec_hash |-> c.newHash, change_summary |-> changeSummary]
              d == [c EXCEPT !.changes = changes, !.changeSummary = changeSummary,
                             !.versionError = versionError,
                             !.versionId = IF versionError THEN 0 ELSE row.id]
          IN  /\ versions' = IF versionError THEN versions ELSE Append(versions, row)
              /\ IF AbortsOnVersionError(versionError)
                 THEN Return(w, d, FALSE)
                 ELSE /\ inv' = [inv EXCEPT ![w] =
                              [d EXCEPT !.pc = IF ~changes.null THEN "logs" ELSE "update"]]
                      /\ UNCHANGED hist
    /\ UNCHANGED <<products, change_logs, calls, env, outside, pure, brandVars>>

\* Insert change log entries (lines 110-127).
InsertLogs(w) ==
    /\ inv[w].pc = "logs"
    /\ \E ok \in Outcomes :
          LET c == inv[w]
              changeLogEntries == ChangeLogEntries(c.productId, c.versionId, c.changes.list)
              d == [c EXCEPT !.logError = ~ok,
                             !.logsWritten = IF ok THEN Len(changeLogEntries) ELSE 0]
          IN  /\ change_logs' = IF ok THEN change_logs \o changeLogEntries ELSE change_logs
              /\ IF ContinuesAfterLogError(~ok)
                 THEN /\ inv' = [inv EXCEPT ![w] = [d EXCEPT !.pc = "update"]]
                      /\ UNCHANGED hist
                 ELSE Return(w, d, FALSE)
    /\ UNCHANGED <<products, versions, calls, env, outside, pure, brandVars>>

\* Update product's spec_hash and timestamp (lines 129-135); the result of
\* the update is not looked at.
UpdateProduct(w) ==
    /\ inv[w].pc = "update"
    /\ \E ok \in Outcomes :
          LET c == inv[w]
          IN  /\ products' =
                    IF ok
                    THEN [products EXCEPT ![c.productId] =
                              UpdatedRow(products[c.productId], c.newHash, calls)]
                    ELSE products
              /\ Return(w, [c EXCEPT !.updateError = ~ok, !.updated = ok], TRUE)
    /\ UNCHANGED <<versions, change_logs, calls, env, outside, pure, brandVars>>

Detector(w) == ReadLatest(w) \/ InsertVersion(w) \/ InsertLogs(w) \/ UpdateProduct(w)

\* ------------------------------------------------------------ processBrand
SCRAPER_REGISTRY == {"Acuity Brands", "Cree Lighting", "Philips"}
\* The brands table: one brand with a scraper, one without.
Brands == {[id |-> 1, name |-> "Cree Lighting"], [id |-> 2, name |-> "GE Current"]}

\* A RawProduct: model, specs (<<field name, text>> in order), rawHtml
\* (undefined or a string) and the geo hint, whose entries are undefined
\* (NullStr) or a text.
RawProduct(model, specs, rawHtml, country, state_province) ==
    [model |-> model, specs |-> specs, rawHtml |-> rawHtml,
     geo |-> [country |-> country, state_province |-> state_province]]

\* The products a scrape may return:
\*   ok        every core field, in range; the page is a JSON document;
\*   warn      watts far above the validator's range: a warning, no error;
\*   missing   no watts at all; the page targets Canada;
\*   unparsed  a watts text without a number; the page starts like JSON
\*             and is not;
\*   canada    a valid product of the Canadian site, without a state;
\*   efficacy  a product that states its efficacy.
\* state_province is the optional hint of the RawProduct interface; a page
\* that names no state fans out over the regions of its country.
RawPool ==
    [ok |->
        RawProduct("M1",
            <<<<<<"W", "a", "t", "t", "a", "g", "e">>, <<"1", "0", " ", "W">>>>, <<<<"L", "u", "m", "e", "n", "s">>, <<"8", "0", "0", " ", "l", "m">>>>, <<<<"C", "C", "T">>, <<"4", "0", "0", "0", "K">>>>,
              <<<<"C", "R", "I">>, <<"8", "0">>>>, <<<<"R", "a", "t", "e", "d", " ", "L", "i", "f", "e">>, <<"2", "5", ",", "0", "0", "0", " ", "h", "o", "u", "r", "s">>>>,
              <<<<"W", "a", "r", "r", "a", "n", "t", "y">>, <<"3", " ", "y", "e", "a", "r", "s">>>>>>,
            Str(<<"{", "}">>), SomeStr("USA"), SomeStr("TX")),
     warn |->
        RawProduct("M1", <<<<<<"P", "o", "w", "e", "r">>, <<"5", ",", "0", "0", "0", " ", "W">>>>, <<<<"L", "u", "m", "e", "n", "s">>, <<"8", "0", "0", " ", "l", "m">>>>>>,
                   Undef, SomeStr("USA"), SomeStr("TX")),
     missing |->
        RawProduct("M3", <<<<<<"L", "u", "m", "e", "n", "s">>, <<"8", "0", "0", " ", "l", "m">>>>, <<<<"B", "e", "a", "m", " ", "A", "n", "g", "l", "e">>, <<"1", "2", "0">>>>>>,
                   Str(<<"<", "h", "t", "m", "l", ">">>), SomeStr("Canada"), NullStr),
     unparsed |->
        RawProduct("M2", <<<<<<"P", "o", "w", "e", "r">>, <<"N", "/", "A">>>>, <<<<"L", "u", "m", "e", "n", "s">>, <<"8", "0", "0", " ", "l", "m">>>>>>,
                   Str(<<"{", "b", "a", "d">>), SomeStr("USA"), SomeStr("TX")),
     canada |->
        RawProduct("M2", <<<<<<"W", "a", "t", "t", "s">>, <<"1", "0">>>>, <<<<"L", "u", "m", "e", "n", "s">>, <<"8", "0", "0">>>>>>,
                   Undef, SomeStr("Canada"), NullStr),
     efficacy |->
        RawProduct("M2", <<<<<<"W", "a", "t", "t", "s">>, <<"1", "0">>>>, <<<<"L", "u", "m", "e", "n", "s">>, <<"8", "0", "0">>>>,
                            <<<<"E", "f", "f", "i", "c", "a", "c", "y">>, <<"8", "0", " ", "l", "m", "/", "W">>>>>>,
                   Undef, SomeStr("USA"), SomeStr("NY"))]

\* The lists a scrape may return: when storage calls may fail, of the
\* products that name their state and of the invalid one; when none fails,
\* also of those that fan out or that the schema rejects.
RawLists(faults) ==
    LET pool == {RawPool.ok, RawPool.warn, RawPool.missing, RawPool.unparsed}
                \cup (IF faults THEN {} ELSE {RawPool.canada, RawPool.efficacy})
    IN  UNION {[1..n -> pool] : n \in 0..MaxRaw}

\* JSON.parse(text) returns: the JSON documents among the model's pages.
JsonParses(text) == text \in {<<"{", "}">>}

\* The active brands main's query may return, in the order of the loop.
BrandLists == {bs \in UNION {[1..n -> Brands] : n \in 1..Cardinality(Brands)} :
                 \A i, j \in 1..Len(bs) : bs[i] = bs[j] => i = j}

\* processBrand before it is called: main's brands, the index of the brand
\* at hand and totalStats, and the locals of processBrand.
NoRun ==
    [pc |-> "idle", brands |-> <<>>, bidx |-> 0,
     totalStats |-> [found |-> 0, newProducts |-> 0, changed |-> 0, errors |-> 0],
     brand |-> [id |-> 0, name |-> ""], scrapeRunId |-> 0,
     rawProducts |-> <<>>, idx |-> 0, normalized |-> <<>>,
     variantsToInsert |-> <<>>, vidx |-> 0,
     stats |-> [found |-> 0, newProducts |-> 0, changed |-> 0, errors |-> 0]]

\* Mutant: an invalid product is processed like a valid one.
SkipsInvalidNever(validation) == FALSE
\* if (!validation.isValid) { stats.errors++; continue; }
SkipsInvalid(validation) == ~validation.isValid

\* { ...normalized, state_province, currency }
GeoPayload(brand, raw, normalized, variant) ==
    [f |-> [k \in FieldSet |-> Get(normalized, k)],
     brand |-> brand.name, model |-> raw.model,
     state_province |-> variant.state_province, currency |-> variant.currency]

\* The insert names a generated column (efficiency), or leaves a NOT NULL
\* column without default (watts, lumens) null: PostgreSQL rejects it.
InsertRejected(payload) ==
    \/ payload.f["efficiency"].t # "undefined"
    \/ IsNullish(payload.f["watts"])
    \/ IsNullish(payload.f["lumens"])

\* The row the orchestrator's insert leaves (index.ts 146-156).
InsertedRow(id, payload, at) ==
    [ProductRow(id, payload.brand, payload.model, payload.state_province,
                InsertedFields(payload.f),
                SomeStr(generateSpecHash(buildSpecSnapshot(payload))), at)
        EXCEPT !.currency = payload.currency]

\* The rows select('*').eq(brand).eq(model).eq(state_province) matches.
Matching(brandName, model, state) ==
    {i \in 1..Len(products) :
        /\ products[i].brand = brandName
        /\ products[i].model = model
        /\ products[i].state_province = state}

\* The next turn of the loop over variantsToInsert, of the loop over
\* rawProducts.
NextVariant(r) ==
    IF r.vidx < Len(r.variantsToInsert)
    THEN [r EXCEPT !.pc = "variant", !.vidx = @ + 1]
    ELSE [r EXCEPT !.pc = "audit"]
\* Mutant: the loop over the raw products is left, not continued.
NextProductBreak(r) ==
    [r EXCEPT !.pc = "product", !.idx = Len(r.rawProducts) + 1, !.normalized = <<>>,
              !.variantsToInsert = <<>>, !.vidx = 0]
\* continue, or the end of the loop body: on to the next raw product.
NextProduct(r) ==
    [r EXCEPT !.pc = "product", !.idx = @ + 1, !.normalized = <<>>,
              !.variantsToInsert = <<>>, !.vidx = 0]

detector == <<versions, change_logs, inv, hist, calls>>

\* Create scrape run record (lines 38-52).
CreateRun ==
    /\ run.pc = "idle"
    /\ run.bidx \in 1..Len(run.brands)
    /\ \E brand \in {run.brands[run.bidx]}, ok \in Outcomes :
          IF ok
          THEN /\ scrape_runs' = Append(scrape_runs,
                      [id |-> Len(scrape_runs) + 1, brand_id |-> brand.id,
                       status |-> "running", products_found |-> 0, products_new |-> 0,
                       products_changed |-> 0, error_message |-> NullStr])
               /\ run' = [run EXCEPT !.pc = "scrape", !.brand = brand,
                                     !.scrapeRunId = Len(scrape_runs) + 1]
          ELSE /\ run' = [run EXCEPT !.pc = "done", !.brand = brand]
               /\ UNCHANGED scrape_runs
    /\ UNCHANGED <<products, detector, env, outside, pure, raw_scraped_data>>

\* No scraper registered for the brand: return stats (lines 56-60).
NoScraper ==
    /\ run.pc = "scrape"
    /\ run.brand.name \notin SCRAPER_REGISTRY
    /\ run' = [run EXCEPT !.pc = "done"]
    /\ UNCHANGED <<products, detector, env, outside, pure, scrape_runs, raw_scraped_data>>

\* scraper.execute() returns the raw products (lines 62-64).
Execute ==
    /\ run.pc = "scrape"
    /\ run.brand.name \in SCRAPER_REGISTRY
    /\ \E rawProducts \in RawLists(env.faults) :
          run' = [run EXCEPT !.pc = "product", !.rawProducts = rawProducts, !.idx = 1,
                             !.stats.found = Len(rawProducts)]
    /\ UNCHANGED <<products, detector, env, outside, pure, scrape_runs, raw_scraped_data>>

\* scraper.execute() throws: the outer catch takes over (line 194).
ExecuteThrows ==
    /\ run.pc = "scrape"
    /\ run.brand.name \in SCRAPER_REGISTRY
    /\ run' = [run EXCEPT !.pc = "failed"]
    /\ UNCHANGED <<products, detector, env, outside, pure, scrape_runs, raw_scraped_data>>

\* One raw product is normalized and validated, and its rows are chosen
\* (lines 67-123).
NormalizeAndValidate ==
    /\ run.pc = "product"
    /\ run.idx <= Len(run.rawProducts)
    /\ LET Validated(raw, normalized, validation) ==
               run' =
                 IF SkipsInvalid(validation)
                 THEN NextProduct([run EXCEPT !.stats.errors = @ + 1])
                 ELSE NextVariant([run EXCEPT
                          !.normalized = normalized,
                          !.variantsToInsert = variantsToInsert(run.brand.name, raw.geo),
                          !.vidx = 0])
           Normalized(raw, normalized) ==
               Validated(raw, normalized, validateProduct(normalized))
           Mapped(raw) == Normalized(raw, Normalize(mapAttributes(raw.specs)))
       IN  Mapped(run.rawProducts[run.idx])
    /\ UNCHANGED <<products, detector, env, outside, pure, scrape_runs, raw_scraped_data>>

\* Check if this exact (brand + model + state_province) row exists, and
\* hand an existing row to processProductChange (lines 127-143).
Lookup ==
    /\ run.pc = "variant"
    /\ \E ok \in Outcomes :
          LET raw == run.rawProducts[run.idx]
              variant == run.variantsToInsert[run.vidx]
              geoPayload == GeoPayload(run.brand, raw, run.normalized, variant)
              rows == Matching(run.brand.name, raw.model, variant.state_province)
          IN  IF ok /\ Cardinality(rows) = 1
              THEN LET existing == products[CHOOSE i \in rows : TRUE]
                   IN  /\ Enter(1, existing.id, existing, geoPayload)
                       /\ run' = [run EXCEPT !.pc = "change"]
              ELSE /\ run' = [run EXCEPT !.pc = "insert"]
                   /\ UNCHANGED <<products, detector, env, outside, pure>>
    /\ UNCHANGED <<scrape_runs, raw_scraped_data>>

\* processProductChange has returned (line 144).
AfterChange ==
    /\ run.pc = "change"
    /\ inv[1].pc = "returned"
    /\ run' = NextVariant(IF inv[1].ret.isChanged
                          THEN [run EXCEPT !.stats.changed = @ + 1] ELSE run)
    /\ UNCHANGED <<products, detector, env, outside, pure, scrape_runs, raw_scraped_data>>

\* The row does not exist: insert it (lines 145-164).
InsertProduct ==
    /\ run.pc = "insert"
    /\ \E ok \in Outcomes :
          LET raw == run.rawProducts[run.idx]
              variant == run.variantsToInsert[run.vidx]
              geoPayload == GeoPayload(run.brand, raw, run.normalized, variant)
              insertError == ~ok \/ InsertRejected(geoPayload)
          IN  IF insertError
              THEN /\ run' = NextVariant([run EXCEPT !.stats.errors = @ + 1])
                   /\ UNCHANGED products
              ELSE /\ run' = NextVariant([run EXCEPT !.stats.newProducts = @ + 1])
                   /\ products' = Append(products,
                          InsertedRow(Len(products) + 1, geoPayload, calls))
    /\ UNCHANGED <<detector, env, outside, pure, scrape_runs, raw_scraped_data>>

\* Store raw data for audit; JSON.parse of a page that starts with '{' and
\* is not JSON throws into the catch of the product (lines 167-180).
Audit ==
    /\ run.pc = "audit"
    /\ LET raw == run.rawProducts[run.idx]
           isJson == raw.rawHtml.s # <<>> /\ raw.rawHtml.s[1] = "{"
       IN  IF Falsy(raw.rawHtml)
           THEN /\ run' = NextProduct(run)
                /\ UNCHANGED raw_scraped_data
           ELSE IF isJson /\ ~JsonParses(raw.rawHtml.s)
           THEN /\ run' = NextProduct([run EXCEPT !.stats.errors = @ + 1])
                /\ UNCHANGED raw_scraped_data
           ELSE /\ run' = NextProduct(run)
                /\ \E ok \in Outcomes :
                      raw_scraped_data' =
                          IF ok
                          THEN Append(raw_scraped_data,
                                  [scrape_run_id |-> run.scrapeRunId,
                                   content_type |-> IF isJson THEN "application/json"
                                                    ELSE "text/html",
                                   raw_json |-> IF isJson THEN raw.rawHtml ELSE Null])
                          ELSE raw_scraped_data
    /\ UNCHANGED <<products, detector, env, outside, pure, scrape_runs>>

\* Update scrape run status to completed and return stats (lines 183-193,
\* 208); the result of the update is not looked at.
Finish ==
    /\ run.pc = "product"
    /\ run.idx > Len(run.rawProducts)
    /\ \E ok \in Outcomes :
          scrape_runs' =
              IF ok
              THEN [scrape_runs EXCEPT ![run.scrapeRunId] =
                        [@ EXCEPT !.status = "completed",
                                  !.products_found = run.stats.found,
                                  !.products_new = run.stats.newProducts,
                                  !.products_changed = run.stats.changed]]
              ELSE scrape_runs
    /\ run' = [run EXCEPT !.pc = "done"]
    /\ UNCHANGED <<products, detector, env, outside, pure, raw_scraped_data>>

\* The outer catch: the run is marked failed (lines 194-208).
Fail ==
    /\ run.pc = "failed"
    /\ \E ok \in Outcomes :
          scrape_runs' =
              IF ok
              THEN [scrape_runs EXCEPT ![run.scrapeRunId] =
                        [@ EXCEPT !.status = "failed",
                                  !.error_message = SomeStr("scrape failed")]]
              ELSE scrape_runs
    /\ run' = [run EXCEPT !.pc = "done"]
    /\ UNCHANGED <<products, detector, env, outside, pure, raw_scraped_data>>

\* main's loop after processBrand returned stats: add them to totalStats
\* and go on to the next brand, if any (lines 243-258).
AfterBrand(r) ==
    [NoRun EXCEPT !.brands = r.brands, !.bidx = r.bidx + 1,
                  !.totalStats = [k \in DOMAIN r.stats |-> r.totalStats[k] + r.stats[k]],
                  !.pc = IF r.bidx < Len(r.brands) THEN "idle" ELSE "finished"]
main ==
    /\ run.pc = "done"
    /\ run' = AfterBrand(run)
    /\ UNCHANGED <<products, detector, env, outside, pure, scrape_runs, raw_scraped_data>>

\* processBrand: its steps.
processBrand ==
    \/ CreateRun \/ NoScraper \/ Execute \/ ExecuteThrows \/ NormalizeAndValidate
    \/ Lookup \/ AfterChange \/ InsertProduct \/ Audit \/ Finish \/ Fail

\* execute() before it is called: its position, maxRetries (nan: parseInt
\* gave NaN), the attempt, the calls of scrape() so far, the backoffs
\* slept (ms), the error caught, and what it returned or threw.
NoRetry ==
    [pc |-> "idle", maxRetries |-> [nan |-> FALSE, n |-> 0], attempt |-> 0, scrapes |-> 0,
     scraped |-> FALSE, slept |-> <<>>, err |-> 0, products |-> <<>>, thrown |-> 0]

\* The sessions that may call claim_first_admin, each for its own user
\* (target_user_id = the session's number).
Sessions == {1, 2}
\* A session outside any call: its position, whether an admin existed
\* when it called, the count it read, the row it inserted and has not
\* committed, its user's email_confirmed_at being set, and what the call
\* returned.
NoRpc ==
    [pc |-> "idle", admin_existed |-> FALSE, existing_admin_count |-> 0, inserted |-> FALSE,
     email_confirmed |-> FALSE, ret |-> [ok |-> FALSE, reason |-> ""]]

\* Neither execute() nor claim_first_admin is called.
InitOutside ==
    /\ retry = NoRetry
    /\ user_roles = <<>>
    /\ rpc = [s \in Sessions |-> NoRpc]

\* No pure function is under check.
NoPure == [fn |-> "none", args |-> <<>>, done |-> FALSE, result |-> NullChanges]

\* The tables and workers before any call.
InitStore ==
    /\ products \in InitTables
    /\ versions = <<>>
    /\ change_logs = <<>>
    /\ inv = [w \in Workers |-> NoCall]
    /\ hist = <<>>
    /\ calls = 0
    /\ run = NoRun
    /\ scrape_runs = <<>>
    /\ raw_scraped_data = <<>>

\* One caller at a time; storage calls may fail.
Init ==
    /\ InitStore
    /\ InitOutside
    /\ env = [active |-> {1}, faults |-> TRUE]
    /\ pure = NoPure

Next == \E w \in Workers : Call(w) \/ Detector(w)

Spec == Init /\ [][Next]_vars

\* Two callers (two scrape processes) whose storage calls interleave; no
\* storage call fails.
InitConc ==
    /\ InitStore
    /\ InitOutside
    /\ env = [active |-> {1, 2}, faults |-> FALSE]
    /\ pure = NoPure

SpecConc == InitConc /\ [][Next]_vars

\* ---------------------------------------------- detectChanges on its own
\* The objects compared: at most two entries, keys among "a" and "b", in
\* either insertion order, over undefined, null, numbers, strings and a
\* boolean.
DiffObjects ==
    LET values == {Undef, Null, N(150), N(165), Str(<<"1", "5", "0">>),
                   Str(<<"n", "u", "l", "l">>), Bool(FALSE)}
    IN  {<<>>}
        \cup {<<<<k, v>>>> : k \in {"a", "b"}, v \in values}
        \cup {<<<<"a", v>>, <<"b", u>>>> : v \in values, u \in {Null, N(150), N(165)}}
        \cup {<<<<"b", v>>, <<"a", u>>>> : v \in {Undef, N(150)}, u \in {Null, N(165)}}

InitDiff ==
    /\ InitStore
    /\ InitOutside
    /\ env = [active |-> {}, faults |-> FALSE]
    /\ pure \in {[fn |-> "detectChanges", args |-> <<existing, incoming>>, done |-> FALSE,
                  result |-> NullChanges] : existing \in DiffObjects, incoming \in DiffObjects}

\* detectChanges(existing, incoming) is called.
ApplyDetectChanges ==
    /\ pure.fn = "detectChanges" /\ ~pure.done
    /\ pure' = [pure EXCEPT !.done = TRUE,
                            !.result = detectChanges(pure.args[1], pure.args[2])]
    /\ UNCHANGED <<storage, inv, hist, calls, env, outside, brandVars>>

SpecDiff == InitDiff /\ [][ApplyDetectChanges]_vars

\* ------------------------------------------------------ a scrape run
\* One run of processBrand over a products table that is empty or holds
\* rows of earlier work; storage calls may fail, or none does.
InitBrand ==
    /\ products \in {<<>>} \cup InitTables
    /\ versions = <<>>
    /\ change_logs = <<>>
    /\ inv = [w \in Workers |-> NoCall]
    /\ hist = <<>>
    /\ calls = 0
    /\ env \in {[active |-> {}, faults |-> b] : b \in BOOLEAN}
    /\ pure = NoPure
    /\ run \in {[NoRun EXCEPT !.brands = bs, !.bidx = 1] : bs \in BrandLists}
    /\ scrape_runs = <<>>
    /\ raw_scraped_data = <<>>
    /\ InitOutside

NextBrand == processBrand \/ main \/ \E w \in Workers : Detector(w)

SpecBrand == InitBrand /\ [][NextBrand]_vars

\* =================================================================
\* Properties of processProductChange, one caller at a time (Spec)
\* =================================================================

\* The stringified value the claims speak of: null for null and undefined.
Shown(v) == IF v.t \in {"null", "undefined"} THEN NullStr ELSE SomeStr(JString(v))
\* The hashes the call r compared differ.
Mismatch(r) == r.existing.spec_hash # SomeStr(generateSpecHash(buildSpecSnapshot(r.incoming)))
\* The snapshot fields whose stringified values differ in the call r.
DiffKeys(r) ==
    {k \in FieldSet : Shown(r.existing.f[k]) # Shown(r.incoming.f[k])}
\* The change_logs rows that reference the version vid.
LogsOf(vid) == {i \in 1..Len(change_logs) : change_logs[i].product_version_id = vid}
\* The worker w is back from a call and has not started another.
Returned(w) == w \in env.active /\ inv[w].pc = "returned"

\* C1: a call whose stored spec_hash equals the hash of the incoming snapshot
\* returns {isNew:false, isChanged:false} in one step that leaves products,
\* product_versions and change_logs as they were; and every step that adds a
\* product_versions row belongs to a call whose two hashes differ.
C1_NoChangeIsNoOp ==
    [][ /\ \A w \in Workers :
              ( /\ calls' = calls + 1
                /\ inv'[w] # inv[w]
                /\ inv'[w].existing = products[inv'[w].productId]
                /\ ~Mismatch(inv'[w]) )
              => /\ inv'[w].pc = "returned"
                 /\ inv'[w].ret = [isNew |-> FALSE, isChanged |-> FALSE]
                 /\ UNCHANGED <<products, versions, change_logs>>
        /\ versions' # versions =>
              \E w \in Workers :
                  /\ inv[w].pc = "insert"
                  /\ Mismatch(inv[w])
                  /\ Len(versions') = Len(versions) + 1
                  /\ versions'[Len(versions')].product_id = inv[w].productId
      ]_vars
C1_Witness ==
    \E w \in Workers :
        /\ Returned(w) /\ ~Mismatch(inv[w]) /\ ~inv[w].ret.isChanged
        /\ inv[w].existing.spec_hash # NullStr

\* The last two calls were made in a row on one product with identical
\* incoming data, and the first met a stored hash that differs from the new.
SameTwice ==
    /\ Len(hist) = 2
    /\ hist[1].productId = hist[2].productId
    /\ hist[1].incoming = hist[2].incoming
    /\ Mismatch(hist[1])
VersionsMade(r) == IF r.versionId # 0 THEN 1 ELSE 0

EarlierNumbers(i) ==
    {versions[j].version_number :
        j \in {k \in 1..(i - 1) : versions[k].product_id = versions[i].product_id}}
\* C3: in insertion order every version row carries 1 + the highest version
\* number its product had before (0 if none), so the numbers of each product
\* are pairwise distinct and are exactly 1..n, storage failures included.
C3_VersionNumbersDense ==
    /\ \A i \in 1..Len(versions) :
          versions[i].version_number =
              1 + (IF EarlierNumbers(i) = {} THEN 0 ELSE MaxOf(EarlierNumbers(i)))
    /\ \A p \in 1..Len(products) :
          LET rows == {i \in 1..Len(versions) : versions[i].product_id = p}
          IN  /\ VersionNumbers(versions, p) = 1..Cardinality(rows)
              /\ \A i, j \in rows : i # j => versions[i].version_number # versions[j].version_number
\* A call whose read of the latest version failed computed number 1 for a
\* product that has version 1, and its insert was rejected.
C3_Witness ==
    /\ Returned(1) /\ inv[1].versionError /\ inv[1].nextVersion = 1
    /\ VersionNumbers(versions, inv[1].productId) = {1}
    /\ Len(versions) = inv[1].versionsAtEntry

\* C4: a call that met a hash mismatch and whose writes all succeeded has
\* added exactly one product_versions row, with the incoming snapshot and the
\* new hash, and exactly one change_logs row per differing field, each with
\* that version's id; snapshots that differ only in price (150 vs 165) give
\* the single entry (price, "150", "165").
C4_OneVersionOneLogPerField ==
    \A w \in Workers :
        LET r == inv[w]
            v == versions[r.versionId]
            written == SubSeq(change_logs, r.logsAtEntry + 1, Len(change_logs))
        IN  ( /\ Returned(w) /\ Mismatch(r)
              /\ ~r.versionError /\ ~r.logError /\ ~r.updateError )
            => /\ Len(versions) = r.versionsAtEntry + 1
               /\ r.versionId = Len(versions)
               /\ v.product_id = r.productId
               /\ v.snapshot = JsonBody(buildSpecSnapshot(r.incoming))
               /\ v.spec_hash = generateSpecHash(buildSpecSnapshot(r.incoming))
               /\ Len(written) = Cardinality(DiffKeys(r))
               /\ \A i \in 1..Len(written) :
                     /\ written[i].product_id = r.productId
                     /\ written[i].product_version_id = r.versionId
               /\ \A k \in DiffKeys(r) :
                     Cardinality({i \in 1..Len(written) :
                         /\ written[i].field_name = k
                         /\ written[i].old_value = Shown(r.existing.f[k])
                         /\ written[i].new_value = Shown(r.incoming.f[k])}) = 1
               /\ (r.existing.f = AdminFields(150) /\ r.incoming.f = AdminFields(165))
                     => written = <<[product_id |-> r.productId,
                                     product_version_id |-> r.versionId,
                                     field_name |-> "price",
                                     old_value |-> SomeStr("150"),
                                     new_value |-> SomeStr("165")]>>
C4_Witness ==
    /\ Returned(1) /\ Mismatch(inv[1])
    /\ ~inv[1].versionError /\ ~inv[1].logError /\ ~inv[1].updateError
    /\ inv[1].existing.f = AdminFields(150) /\ inv[1].incoming.f = AdminFields(165)
    /\ Len(change_logs) = inv[1].logsAtEntry + 1

\* The product handed to the call r has stored spec data.
HasSpecData(r) == \E k \in FieldSet : ~IsNullish(r.existing.f[k])
\* C6 as claimed: a version made for a product that has stored spec data is
\* never summarised "Initial version": its summary lists the differing
\* fields and at least one change_logs row accompanies it (a failed
\* change-log insert aside).
C6_Original ==
    \A w \in Workers :
        LET r == inv[w]
        IN  (Returned(w) /\ r.versionId # 0 /\ HasSpecData(r))
            => /\ versions[r.versionId].change_summary # "Initial version"
               /\ versions[r.versionId].change_summary = JoinLines(r.changes.list)
               /\ ~r.logError => LogsOf(r.versionId) # {}

\* C7: when the product_versions insert fails the call returns
\* isChanged:false having written no change_logs row and no version, and the
\* product row (spec_hash and last_scraped_at included) is as the call found
\* it, so that its stored hash still differs from the incoming one.
C7_VersionFailureAborts ==
    \A w \in Workers :
        LET r == inv[w]
        IN  (Returned(w) /\ r.versionError)
            => /\ r.ret = [isNew |-> FALSE, isChanged |-> FALSE]
               /\ r.logsWritten = 0
               /\ Len(change_logs) = r.logsAtEntry
               /\ Len(versions) = r.versionsAtEntry
               /\ products[r.productId] = r.existing
               /\ products[r.productId].spec_hash # SomeStr(r.newHash)
C7_Witness ==
    /\ Returned(1) /\ inv[1].versionError
    /\ DiffKeys(inv[1]) # {}

\* Every change_logs row references a product_versions row of its product.
NoOrphanLog ==
    \A i \in 1..Len(change_logs) :
        /\ change_logs[i].product_version_id \in 1..Len(versions)
        /\ versions[change_logs[i].product_version_id].product_id = change_logs[i].product_id
\* C8 as claimed: no change_logs row is without its version; and a call
\* whose change-log insert failed after its version insert succeeded keeps
\* the version, has the product's spec_hash updated and returns
\* isChanged:true.
C8_Original ==
    /\ NoOrphanLog
    /\ \A w \in Workers :
          LET r == inv[w]
          IN  (Returned(w) /\ r.versionId # 0 /\ r.logError)
              => /\ versions[r.versionId].product_id = r.productId
                 /\ versions[r.versionId].spec_hash = r.newHash
                 /\ products[r.productId].spec_hash = SomeStr(r.newHash)
                 /\ r.ret.isChanged
\* C8 as amended: the same, the spec_hash being updated unless the update
\* call itself fails (its result is not looked at), in which case the
\* product row is left as it was and the call still returns isChanged:true.
C8_VersionFirst ==
    /\ NoOrphanLog
    /\ \A w \in Workers :
          LET r == inv[w]
          IN  (Returned(w) /\ r.versionId # 0 /\ r.logError)
              => /\ versions[r.versionId].product_id = r.productId
                 /\ versions[r.versionId].spec_hash = r.newHash
                 /\ Len(change_logs) = r.logsAtEntry
                 /\ r.ret.isChanged
                 /\ ~r.updateError => products[r.productId].spec_hash = SomeStr(r.newHash)
                 /\ r.updateError => products[r.productId] = r.existing
C8_Witness ==
    /\ Returned(1) /\ inv[1].versionId # 0 /\ inv[1].logError /\ ~inv[1].updateError
    /\ products[inv[1].productId].spec_hash = SomeStr(inv[1].newHash)
    /\ change_logs # <<>>

\* =================================================================
\* Two interleaved callers (SpecConc)
\* =================================================================

\* C9 as claimed: two calls for one product with the same incoming data,
\* started from the same stored hash and interleaved at their storage calls,
\* do not both append a version; no product has two rows with one version
\* number, nor two successive versions with the same hash.
C9_Original ==
    /\ \A w1, w2 \in Workers :
          ( /\ w1 # w2
            /\ inv[w1].productId # 0 /\ inv[w1].productId = inv[w2].productId
            /\ inv[w1].incoming = inv[w2].incoming
            /\ inv[w1].oldHash = inv[w2].oldHash )
          => ~(inv[w1].versionId # 0 /\ inv[w2].versionId # 0)
    /\ \A i, j \in 1..Len(versions) :
          (i # j /\ versions[i].product_id = versions[j].product_id)
          => /\ versions[i].version_number # versions[j].version_number
             /\ versions[j].version_number = versions[i].version_number + 1
                   => versions[i].spec_hash # versions[j].spec_hash

\* =================================================================
\* detectChanges (SpecDiff)
\* =================================================================

\* The keys of either object whose stringified values differ.
Differing(existing, incoming) ==
    {k \in KeySet(existing) \cup KeySet(incoming) :
        Shown(Get(existing, k)) # Shown(Get(incoming, k))}

\* C5: detectChanges reports exactly the keys of the union of both key sets
\* whose stringified old and new values differ, each once, with null (not
\* "null") for a null, undefined or absent side; the result is null exactly
\* when no key differs.
C5_DetectChangesExact ==
    (pure.fn = "detectChanges" /\ pure.done) =>
        LET existing == pure.args[1]
            incoming == pure.args[2]
            list == pure.result.list
        IN  /\ {list[i].fieldName : i \in 1..Len(list)} = Differing(existing, incoming)
            /\ Len(list) = Cardinality(Differing(existing, incoming))
            /\ \A i \in 1..Len(list) :
                  /\ list[i].oldValue = Shown(Get(existing, list[i].fieldName))
                  /\ list[i].newValue = Shown(Get(incoming, list[i].fieldName))
            /\ pure.result.null <=> Differing(existing, incoming) = {}
            /\ pure.result.null => list = <<>>
\* A field only the incoming object has is reported with a null old value,
\* while a field undefined on one side and null on the other is not.
C5_Witness ==
    /\ pure.fn = "detectChanges" /\ pure.done
    /\ pure.args[1] = <<<<"a", Undef>>>>
    /\ pure.args[2] = <<<<"a", Null>>, <<"b", N(150)>>>>
    /\ pure.result.list =
          <<[fieldName |-> "b", oldValue |-> NullStr, newValue |-> SomeStr("150")]>>

\* =================================================================
\* processBrand (SpecBrand)
\* =================================================================

\* The validation result of the raw product raw.
Validation(raw) == validateProduct(Normalize(mapAttributes(raw.specs)))
\* processBrand is at the head of its loop with a product left to handle.
AtProduct == run.pc = "product" /\ run.idx <= Len(run.rawProducts)
\* The products rows of the brand's model `model`.
RowsOf(model) ==
    {i \in 1..Len(products) :
        products[i].brand = run.brand.name /\ products[i].model = model}

\* C10: the step of processBrand that meets a product whose validation
\* reports an error adds exactly one to stats.errors, leaves the other
\* counters, every table and the change detector untouched and moves on to
\* the next product; a products lookup, a products insert and a call of
\* processProductChange only ever happen for a product without validation
\* errors; and a product with warnings and no error goes on to its rows (one
\* lookup per region, each followed by an insert or a change-detector call).
C10_InvalidProductSkipped ==
    [][ /\ (AtProduct /\ Validation(run.rawProducts[run.idx]).errors # <<>>)
              => /\ run'.stats = [run.stats EXCEPT !.errors = @ + 1]
                 /\ run'.pc = "product" /\ run'.idx = run.idx + 1
                 /\ UNCHANGED <<products, versions, change_logs, inv, hist, calls,
                                scrape_runs, raw_scraped_data>>
        /\ (run.pc \in {"variant", "insert", "change"} \/ products' # products
               \/ calls' # calls)
              => /\ run.idx \in 1..Len(run.rawProducts)
                 /\ Validation(run.rawProducts[run.idx]).isValid
                 /\ Validation(run.rawProducts[run.idx]).errors = <<>>
        /\ (AtProduct /\ Validation(run.rawProducts[run.idx]).errors = <<>>)
              => /\ run'.stats = run.stats
                 /\ run'.idx = run.idx
                 /\ run'.variantsToInsert =
                        variantsToInsert(run.brand.name, run.rawProducts[run.idx].geo)
                 /\ run'.variantsToInsert # <<>> => run'.pc = "variant" /\ run'.vidx = 1
        /\ (run.pc = "variant")
              => \/ run'.pc = "insert" /\ calls' = calls
                 \/ run'.pc = "change" /\ calls' = calls + 1
                       /\ inv'[1].incoming.f = [k \in FieldSet |-> Get(run.normalized, k)]
        /\ (run.pc = "insert" /\ products' # products)
              => /\ Len(products') = Len(products) + 1
                 /\ products'[Len(products')].model = run.rawProducts[run.idx].model
                 /\ products'[Len(products')].state_province =
                        run.variantsToInsert[run.vidx].state_province
                 /\ run'.stats.newProducts = run.stats.newProducts + 1
      ]_vars
\* A run met the product without watts (errors: 1, nothing written for its
\* model) and then the product whose watts are out of range, which it
\* inserted for its region.
C10_Witness ==
    /\ run.pc = "done"
    /\ run.rawProducts = <<RawPool.missing, RawPool.warn>>
    /\ Validation(RawPool.missing).errors = <<"Missing required field: watts">>
    /\ Validation(RawPool.warn).errors = <<>> /\ Validation(RawPool.warn).warnings # <<>>
    /\ run.stats = [found |-> 2, newProducts |-> 1, changed |-> 0, errors |-> 1]
    /\ RowsOf("M3") = {}
    /\ \E i \in RowsOf("M1") :
          products[i].state_province = "TX" /\ products[i].f["watts"] = N(5000)

\* ------------------------------------------------------------------ C11
\* The fields among watts and lumens that the raw product maps and whose
\* text holds no extractable number.
Unparsed(raw) ==
    {k \in {"watts", "lumens"} \cap KeySet(mapAttributes(raw.specs)) :
        extractNumeric(Get(mapAttributes(raw.specs), k).value) = Null}

\* C11 (as stated): the step of processBrand that meets a product with an
\* unparsed watts or lumens counts it as an error and skips it, and no
\* products row is ever inserted for such a product.
C11_Original ==
    [][ /\ (AtProduct /\ Unparsed(run.rawProducts[run.idx]) # {})
              => /\ ~Validation(run.rawProducts[run.idx]).isValid
                 /\ run'.stats.errors = run.stats.errors + 1
                 /\ run'.pc = "product" /\ run'.idx = run.idx + 1
        /\ (run.pc = "insert" /\ products' # products)
              => Unparsed(run.rawProducts[run.idx]) = {}
      ]_vars

\* ------------------------------------------------------------------ C12
\* The call of processProductChange that has just returned met a storage
\* error in one of its writes.
WriteFailed(c) == c.versionError \/ c.logError \/ c.updateError

\* C12 (as stated): the step of processBrand that takes the result of
\* processProductChange, and the step that inserts a products row, add one
\* to stats.errors whenever a write of theirs failed; and processBrand
\* never ends in its outer catch because of them.
C12_Original ==
    [][ /\ (run.pc = "change" /\ inv[1].pc = "returned" /\ WriteFailed(inv[1]))
              => run'.stats.errors = run.stats.errors + 1
        /\ (run.pc = "insert" /\ products' = products)
              => run'.stats.errors = run.stats.errors + 1
        /\ run.pc \in {"variant", "change", "insert", "audit"} => run'.pc # "failed"
      ]_vars

\* ------------------------------------------------------------------ C13
\* JSON.parse(raw.rawHtml) throws for the product at hand.
Throws(raw) ==
    /\ ~Falsy(raw.rawHtml)
    /\ raw.rawHtml.s[1] = "{"
    /\ ~JsonParses(raw.rawHtml.s)

\* C13: whatever the counters say and whatever happened to the products
\* before it, the step at the head of the loop maps and validates the
\* product at hand (skipping it when invalid, keeping its normalized form
\* otherwise); within a run the index only ever moves on by one, to the
\* head of the loop; the loop is left only past the last product, and never
\* into the outer catch; a product whose page makes JSON.parse throw adds
\* exactly one to stats.errors and the loop goes on with the next product;
\* and main, whatever processBrand returned, adds the stats to totalStats
\* and goes on with the next brand, finishing only after the last one.
C13_PartialFailureIsolation ==
    [][ /\ AtProduct
              => \/ /\ ~Validation(run.rawProducts[run.idx]).isValid
                    /\ run'.idx = run.idx + 1 /\ run'.pc = "product"
                 \/ /\ Validation(run.rawProducts[run.idx]).isValid
                    /\ run'.idx = run.idx
                    /\ run'.normalized =
                           Normalize(mapAttributes(run.rawProducts[run.idx].specs))
        /\ (run.pc \in {"product", "variant", "change", "insert", "audit"})
              => /\ run'.idx \in {run.idx, run.idx + 1}
                 /\ run'.idx = run.idx + 1 => run'.pc = "product"
                 /\ run'.pc # "failed"
                 /\ run'.pc = "done" => run.idx = Len(run.rawProducts) + 1
                 /\ run'.rawProducts = run.rawProducts
        /\ (run.pc = "audit" /\ Throws(run.rawProducts[run.idx]))
              => /\ run'.stats = [run.stats EXCEPT !.errors = @ + 1]
                 /\ run'.idx = run.idx + 1 /\ run'.pc = "product"
        /\ (run.pc = "done")
              => /\ run'.bidx = run.bidx + 1
                 /\ run'.brands = run.brands
                 /\ run'.totalStats.errors = run.totalStats.errors + run.stats.errors
                 /\ run'.totalStats.found = run.totalStats.found + run.stats.found
                 /\ run'.pc = IF run.bidx < Len(run.brands) THEN "idle" ELSE "finished"
        /\ (run.pc = "idle" /\ run.bidx <= Len(run.brands))
              => run'.brand = run.brands[run.bidx]
      ]_vars
\* The first brand's scraper returned two products: the page of one made
\* JSON.parse throw after its row was inserted, and the other was inserted
\* all the same; main then went on to the second brand.
C13_Witness ==
    /\ run.bidx = 2 /\ run.pc = "scrape"
    /\ run.brand = run.brands[2]
    /\ run.totalStats = [found |-> 2, newProducts |-> 2, changed |-> 0, errors |-> 1]
    /\ Len(products) = 2
    /\ products[1].model = RawPool.unparsed.model
    /\ products[2].model = RawPool.ok.model
    /\ Len(scrape_runs) = 2

\* =================================================================
\* The pure functions of the normalizer and of the hash engine (SpecPure)
\* =================================================================

\* The calls of pure functions under check. An object literal holds the
\* entries that are there (Absent marks an entry the literal does not have).
\* The brand names getGeoVariants is called with: the brands of the table,
\* and names the table has no entry for.
BrandNames ==
    DOMAIN BRAND_GEO
        \cup {"Nonexistent", "", "acuity brands", "Philips Lighting", "Signify", "Osram"}
        \cup {"constructor", "toString", "__proto__"}

PureCalls ==
    LET Absent == [t |-> "absent", n |-> 0, s |-> <<>>]
        Literal(o) == SelectSeq(o, LAMBDA e : e[2] # Absent)
        \* the normalized products validateProduct is called with
        products_ ==
            {Literal(<<<<"watts", w>>, <<"lumens", lm>>, <<"efficiency", e>>,
                       <<"cct", c>>>>) :
                w \in {Absent, Null, Str(<<>>), N(10), N(5000), N(3),
                       Str(<<"a", "b", "c">>), Str(<<"1", "0">>)},
                lm \in {Absent, Undef, Str(<<>>), N(800), N(10),
                        Str(<<"8", "0", "0", " ", "l", "m">>)},
                e \in {Absent, N(0), N(80), N(85), Num(85100), N(75), Num(74900),
                       N(300), Num(261700), Num(261600), Str(<<"8", "6">>)},
                c \in {Absent, Null, N(4000), N(100), Str(<<"w", "a", "r", "m">>)}}
        \* the values of the objects generateSpecHash is called with
        values == {Null, Undef, N(10), Num(10004), Num(10006), NaN, Bool(TRUE),
                   Str(<<"1", "0">>), Str(<<"l", "e", "d">>),
                   Str(<<" ", "L", "e", "D", "\t">>), Str(<<"l", "e", " ", "d">>)}
        specs_ ==
            {Literal(<<<<k[1], v>>, <<k[2], u>>, <<k[3], x>>>>) :
                k \in {<<"a", "b", "watts">>, <<"b", "a", "watts">>, <<"watts", "b", "a">>},
                v \in values, u \in values \cup {Absent}, x \in {Absent, N(10), Null}}
        \* the raw specs mapAttributes is called with: field names and texts
        fields == {<<"P", "o", "w", "e", "r">>, <<"W", "a", "t", "t", "a", "g", "e">>,
                   <<"L", "u", "m", "e", "n", "s">>, <<" ", "C", "R", "I", " ">>,
                   <<"F", "o", "o", " ", "\t", "B", "a", "r">>,
                   <<"f", "o", "o", "_", "b", "a", "r">>}
        texts == {<<"1", "0", " ", "W">>, <<"1", "2", " ", "W">>}
        rawSpecs_ ==
            {<<>>}
            \cup {<<<<k, t>>>> : k \in fields, t \in texts}
            \cup {<<<<kj[1], t>>, <<kj[2], u>>>> :
                     kj \in {x \in fields \X fields : x[1] # x[2]},
                     t \in texts, u \in texts}
        \* the texts extractUnit and parseAndConvert are called with: a
        \* number or none, followed by nothing, by a unit or by a word
        \* (a unit with a conversion rule follows the numbers below 1000 only:
        \* the products stay within the integers of the model)
        small == {<<>>, <<"5">>, <<"4", "5">>, <<"4", ".", "5">>, <<"2">>, <<"0">>}
        large == {<<"4", "5", "0", "0">>, <<"4", ",", "5", "0", "0">>}
        plain == {<<>>, <<" ", "l", "m">>, <<" ", "w">>, <<" ", "V">>, <<"N", "/", "A">>}
        ruled == {<<" ", "y", "e", "a", "r", "s">>, <<"k", "W">>, <<" ", "l", "b">>}
        measures == {n \o u : n \in small \cup large, u \in plain}
                        \cup {n \o u : n \in small, u \in ruled}
        targets == {<<"l", "m">>, <<"h", "o", "u", "r", "s">>, <<"W">>, <<"k", "g">>}
    IN  {[fn |-> "validateProduct", args |-> <<product>>, done |-> FALSE,
          result |-> Null] : product \in products_}
        \cup {[fn |-> "generateSpecHash", args |-> <<specs>>, done |-> FALSE,
               result |-> Null] : specs \in specs_}
        \cup {[fn |-> "mapAttributes", args |-> <<rawSpecs>>, done |-> FALSE,
               result |-> Null] : rawSpecs \in rawSpecs_}
        \cup {[fn |-> "extractUnit", args |-> <<value>>, done |-> FALSE,
               result |-> Null] : value \in measures}
        \cup {[fn |-> "parseAndConvert", args |-> <<rawValue, t>>, done |-> FALSE,
               result |-> Null] : rawValue \in measures, t \in targets}
        \cup {[fn |-> "getGeoVariants", args |-> <<brandName>>, done |-> FALSE,
               result |-> Null] : brandName \in BrandNames}

InitPure ==
    /\ InitStore
    /\ InitOutside
    /\ env = [active |-> {}, faults |-> FALSE]
    /\ pure \in PureCalls

\* validateProduct(product) is called.
ApplyValidateProduct ==
    /\ pure.fn = "validateProduct" /\ ~pure.done
    /\ pure' = [pure EXCEPT !.done = TRUE, !.result = validateProduct(pure.args[1])]
    /\ UNCHANGED <<storage, inv, hist, calls, env, outside, brandVars>>

\* generateSpecHash(specs) is called.
ApplyGenerateSpecHash ==
    /\ pure.fn = "generateSpecHash" /\ ~pure.done
    /\ pure' = [pure EXCEPT !.done = TRUE, !.result = generateSpecHash(pure.args[1])]
    /\ UNCHANGED <<storage, inv, hist, calls, env, outside, brandVars>>

\* mapAttributes(rawSpecs) is called.
ApplyMapAttributes ==
    /\ pure.fn = "mapAttributes" /\ ~pure.done
    /\ pure' = [pure EXCEPT !.done = TRUE, !.result = mapAttributes(pure.args[1])]
    /\ UNCHANGED <<storage, inv, hist, calls, env, outside, brandVars>>

\* extractUnit(value) is called.
ApplyExtractUnit ==
    /\ pure.fn = "extractUnit" /\ ~pure.done
    /\ pure' = [pure EXCEPT !.done = TRUE, !.result = extractUnit(pure.args[1])]
    /\ UNCHANGED <<storage, inv, hist, calls, env, outside, brandVars>>

\* parseAndConvert(rawValue, targetUnit) is called.
ApplyParseAndConvert ==
    /\ pure.fn = "parseAndConvert" /\ ~pure.done
    /\ pure' = [pure EXCEPT !.done = TRUE,
                            !.result = parseAndConvert(pure.args[1], pure.args[2])]
    /\ UNCHANGED <<storage, inv, hist, calls, env, outside, brandVars>>

\* getGeoVariants(brandName) is called.
ApplyGetGeoVariants ==
    /\ pure.fn = "getGeoVariants" /\ ~pure.done
    /\ pure' = [pure EXCEPT !.done = TRUE, !.result = getGeoVariants(pure.args[1])]
    /\ UNCHANGED <<storage, inv, hist, calls, env, outside, brandVars>>

NextPure ==
    \/ ApplyValidateProduct \/ ApplyGenerateSpecHash \/ ApplyMapAttributes
    \/ ApplyExtractUnit \/ ApplyParseAndConvert \/ ApplyGetGeoVariants

SpecPure == InitPure /\ [][NextPure]_vars

\* ------------------------------------------------------------------ C14
\* validateProduct has returned.
Validated == pure.fn = "validateProduct" /\ pure.done
\* A value counts as missing: null, undefined or the empty string.
Missing(v) == v \in {Null, Undef, Str(<<>>)}
\* The value v, present, is not a number or lies outside [min, max].
Suspicious(rule, v) ==
    LET num == IF v.t = "string" THEN parseFloat(v.s) ELSE v
    IN  num.t # "number" \/ num = NaN \/ num.n < rule.min \/ num.n > rule.max
\* The warnings of the efficiency cross-check among the warnings ws of
\* the product.
Cross(product, ws) == SelectSeq(ws, LAMBDA x : <<x>> = EfficiencyWarnings(product))

\* C14: isValid is false exactly when watts or lumens is null, undefined
\* or empty; the errors are one 'Missing required field' per such field, in
\* the order of the rules, and nothing else; every rule whose field is
\* present and non-numeric or out of range gives exactly one warning, a
\* missing optional field gives none; and isValid is errors.length = 0.
C14_ValidateProduct ==
    Validated =>
        LET product == pure.args[1]
            r == pure.result
            required == SelectSeq(<<"watts", "lumens">>,
                                  LAMBDA k : Missing(Get(product, k)))
            flagged == {i \in 1..Len(VALIDATION_RULES) :
                          /\ ~Missing(Get(product, VALIDATION_RULES[i].field))
                          /\ Suspicious(VALIDATION_RULES[i],
                                        Get(product, VALIDATION_RULES[i].field))}
        IN  /\ r.isValid <=> required = <<>>
            /\ r.isValid <=> Len(r.errors) = 0
            /\ r.errors = [i \in 1..Len(required) |->
                              "Missing required field: " \o required[i]]
            /\ Len(r.warnings) - Len(Cross(product, r.warnings)) = Cardinality(flagged)
            /\ (Get(product, "watts") = N(5000) /\ Get(product, "lumens") = N(800)
                  /\ Get(product, "efficiency") = Undef /\ Get(product, "cct") = Undef)
                  => r = [isValid |-> TRUE, errors |-> <<>>,
                          warnings |->
                              <<"watts value 5000 is outside expected range [1, 2000]">>]
\* The record without watts, with a lumens text and a cct that is not a
\* number: one error naming watts, one warning for the cct.
C14_Witness ==
    /\ Validated
    /\ pure.args[1] = <<<<"lumens", N(800)>>, <<"cct", Str(<<"w", "a", "r", "m">>)>>>>
    /\ pure.result = [isValid |-> FALSE,
                      errors |-> <<"Missing required field: watts">>,
                      warnings |-> <<"Non-numeric value for cct: warm">>]

\* ------------------------------------------------------------------ C15
\* |stated - round(lumens / watts, 1 decimal)| > 5, in thousandths.
DiffersByMoreThan5(w, lm, stated) ==
    LET calc == CalcEfficiency(w, lm)
    IN  stated - calc > 5000 \/ calc - stated > 5000

\* C15 (as stated): the efficiency warning is there if and only if watts
\* and lumens are present and positive, an efficiency is stated, and it
\* differs from the calculated one by more than 5; a difference of exactly
\* 5 gives no warning; the check adds no error.
C15_Original ==
    Validated =>
        LET product == pure.args[1]
            w == ToNumber(Get(product, "watts"))
            lm == ToNumber(Get(product, "lumens"))
            stated == ToNumber(Get(product, "efficiency"))
            positive == /\ ~Missing(Get(product, "watts")) /\ w # NaN /\ w.n > 0
                        /\ ~Missing(Get(product, "lumens")) /\ lm # NaN /\ lm.n > 0
        IN  /\ Cross(product, pure.result.warnings) # <<>>
                  <=> /\ positive
                      /\ ~Missing(Get(product, "efficiency")) /\ stated # NaN
                      /\ DiffersByMoreThan5(w.n, lm.n, stated.n)
            /\ Len(pure.result.errors) =
                   Cardinality({k \in {"watts", "lumens"} : Missing(Get(product, k))})

\* ------------------------------------------------------------------ C16
\* generateSpecHash has returned.
Hashed == pure.fn = "generateSpecHash" /\ pure.done
\* The orders the entries of an object of n entries can be inserted in.
Orders(n) == {p \in [1..n -> 1..n] : \A i, j \in 1..n : p[i] = p[j] => i = j}
\* The texts that differ from cs in case or in leading and trailing white
\* space only (over the letters of the model's texts).
Respelled(cs) ==
    LET Upper(c) == CASE c = "l" -> "L" [] c = "e" -> "E" [] c = "d" -> "D" [] OTHER -> c
    IN  {cs, [i \in 1..Len(cs) |-> Upper(cs[i])], <<" ", "\n">> \o cs, cs \o <<"\t">>,
         <<"\t">> \o [i \in 1..Len(cs) |-> IF i = 1 THEN Upper(cs[i]) ELSE cs[i]] \o <<" ">>}
\* The objects that are specs with its keys inserted in another order and
\* its string values respelled.
Reordered(specs) ==
    {[i \in 1..Len(specs) |-> <<specs[p[i]][1], v[p[i]]>>] :
        p \in Orders(Len(specs)),
        v \in {w \in [1..Len(specs) ->
                        UNION {IF specs[i][2].t = "string"
                               THEN {Str(cs) : cs \in Respelled(specs[i][2].s)}
                               ELSE {specs[i][2]} : i \in 1..Len(specs)}] :
                 \A i \in 1..Len(specs) :
                    IF specs[i][2].t = "string"
                    THEN w[i].t = "string" /\ w[i].s \in Respelled(specs[i][2].s)
                    ELSE w[i] = specs[i][2]}}

\* C16: the hash of an object is the hash of every object that holds the
\* same entries in another insertion order, with its string values in
\* another case or with other leading and trailing white space; and the
\* detector's comparison, given one as the stored hash and the other as the
\* new one, sees no change.
C16_HashDeterministic ==
    Hashed =>
        \A other \in Reordered(pure.args[1]) :
            /\ generateSpecHash(other) = pure.result
            /\ NoChange(SomeStr(pure.result), generateSpecHash(other))
\* Three entries inserted in descending key order, one of them a text: the
\* object with the keys ascending and the text capitalized between white
\* space is among those that hash the same.
C16_Witness ==
    /\ Hashed
    /\ pure.args[1] = <<<<"watts", Str(<<"l", "e", "d">>)>>, <<"b", Num(10004)>>,
                        <<"a", N(10)>>>>
    /\ pure.result = "sha256:{\"a\":10,\"b\":10,\"watts\":\"led\"}"
    /\ <<<<"a", N(10)>>, <<"b", Num(10004)>>,
          <<"watts", Str(<<"\t", "L", "e", "d", " ">>)>>>> \in Reordered(pure.args[1])

\* ------------------------------------------------------------------ C17
\* The canonical form of an object: its entries that are neither null nor
\* undefined, by key, each text trimmed and in lower case, each number
\* rounded to two decimals.
Canonical(specs) ==
    [k \in {j \in KeySet(specs) : Get(specs, j) \notin {Null, Undef}} |->
        LET v == Get(specs, k)
        IN  CASE v.t = "string" -> Str(ToLower(Trim(v.s)))
              [] v.t = "number" /\ v # NaN -> Num(Round2(v.n))
              [] OTHER -> v]
\* The objects of at most two entries among those generateSpecHash is
\* called with.
HashedObjects ==
    {c.args[1] : c \in {d \in PureCalls :
                            d.fn = "generateSpecHash" /\ Len(d.args[1]) <= 2}}

\* C17: the hash of an object equals the hash of another exactly when the
\* two have the same canonical form; an object hashes as the object without
\* its null and undefined entries does.
C17_HashExact ==
    Hashed =>
        /\ \A other \in HashedObjects :
              generateSpecHash(other) = pure.result
                  <=> Canonical(other) = Canonical(pure.args[1])
        /\ generateSpecHash(SelectSeq(pure.args[1], LAMBDA e : e[2] \notin {Null, Undef}))
              = pure.result
\* An object with a null entry: it hashes as the object without the entry
\* does, and not as the object whose other entry is rounded differently.
C17_Witness ==
    /\ Hashed
    /\ pure.args[1] = <<<<"a", Num(10004)>>, <<"b", Null>>>>
    /\ pure.result = generateSpecHash(<<<<"a", N(10)>>>>)
    /\ pure.result # generateSpecHash(<<<<"a", Num(10006)>>, <<"b", Null>>>>)
    /\ {<<<<"a", N(10)>>>>, <<<<"a", Num(10006)>>, <<"b", Null>>>>} \subseteq HashedObjects

\* ------------------------------------------------------------------ C18
\* C18 (as stated): the result of mapAttributes has one entry per input
\* field, and every input field is the sourceField of an entry that
\* carries its text, under its standard key when the field name matches a
\* synonym and under a raw_ key with an empty unit otherwise.
C18_Original ==
    (pure.fn = "mapAttributes" /\ pure.done) =>
        LET rawSpecs == pure.args[1]
            result == pure.result
        IN  /\ Len(result) = Len(rawSpecs)
            /\ \A i \in 1..Len(rawSpecs) :
                  \E j \in 1..Len(result) :
                     /\ result[j][2].sourceField = rawSpecs[i][1]
                     /\ result[j][2].value = rawSpecs[i][2]
                     /\ IF findMapping(rawSpecs[i][1]) # 0
                        THEN result[j][1] =
                                 ATTRIBUTE_MAP[findMapping(rawSpecs[i][1])].standardName
                        ELSE result[j][2].unit = ""

\* ------------------------------------------------------------------ C19
\* The text is only a number: digits, with or without thousands separators
\* and a decimal part.
BareNumber(cs) ==
    /\ cs # <<>>
    /\ \A i \in 1..Len(cs) : cs[i] \in DigitSet \cup {",", "."}
    /\ cs[1] \in DigitSet /\ cs[Len(cs)] \in DigitSet

\* C19 (as stated): for a text that is only a number extractUnit returns
\* the empty string, and parseAndConvert returns that number with the
\* target unit.
C19_Original ==
    /\ (pure.fn = "extractUnit" /\ pure.done /\ BareNumber(pure.args[1]))
          => pure.result = <<>>
    /\ (pure.fn = "parseAndConvert" /\ pure.done /\ BareNumber(pure.args[1]))
          => pure.result = [null |-> FALSE, value |-> extractNumeric(pure.args[1]),
                            unit |-> pure.args[2]]

\* ------------------------------------------------------------------ C20
\* The numbers and the units of the texts, with the value (in thousandths)
\* and the unit each one stands for.
Numbers20 ==
    {[text |-> <<"5">>, value |-> 5000], [text |-> <<"4", "5">>, value |-> 45000],
     [text |-> <<"4", "5", "0", "0">>, value |-> 4500000],
     [text |-> <<"4", ",", "5", "0", "0">>, value |-> 4500000],
     [text |-> <<"4", ".", "5">>, value |-> 4500], [text |-> <<"2">>, value |-> 2000],
     [text |-> <<"0">>, value |-> 0]}

Units20 ==
    {[text |-> <<" ", "l", "m">>, unit |-> <<"l", "m">>],
     [text |-> <<" ", "w">>, unit |-> <<"w">>], [text |-> <<" ", "V">>, unit |-> <<"V">>],
     [text |-> <<"N", "/", "A">>, unit |-> <<"N", "/", "A">>],
     [text |-> <<" ", "y", "e", "a", "r", "s">>, unit |-> <<"y", "e", "a", "r", "s">>],
     [text |-> <<"k", "W">>, unit |-> <<"k", "W">>],
     [text |-> <<" ", "l", "b">>, unit |-> <<"l", "b">>]}

\* The known rules between these units and the targets: the factor, in
\* ten-thousandths (0: no rule).
Factor20(unit, target) ==
    CASE unit = <<"y", "e", "a", "r", "s">> /\ target = <<"h", "o", "u", "r", "s">> -> 87600000
      [] unit = <<"k", "W">> /\ target = <<"W">> -> 10000000
      [] unit = <<"l", "b">> /\ target = <<"k", "g">> -> 4536
      [] OTHER -> 0

\* value (in thousandths) times a factor (in ten-thousandths), rounded to
\* hundredths and written in thousandths.
Times20(value, factor) ==
    IF factor % 10000 = 0
    THEN value * (factor \div 10000)
    ELSE ((value * factor + 50000) \div 100000) * 10

\* What parseAndConvert is to return for a number followed by a unit.
Expected20(n, u, target) ==
    IF ToLower(u.unit) = ToLower(target)
    THEN [null |-> FALSE, value |-> Num(n.value), unit |-> target]
    ELSE IF Factor20(u.unit, target) # 0
    THEN [null |-> FALSE, unit |-> target,
          value |-> Num(Times20(n.value, Factor20(u.unit, target)))]
    ELSE [null |-> FALSE, value |-> Num(n.value), unit |-> u.unit]

\* C20: parseAndConvert returns null exactly for a text without a number;
\* for a number followed by a unit it returns the converted value with the
\* target unit when a rule leads to the target ("2 years" to hours gives
\* 17520 hours), the number unchanged with the target unit when the unit is
\* the target in any letter case ("4,500 lm" to lm gives 4500 lm), and the
\* unconverted number with its own unit when no rule exists.
C20_BestEffort ==
    (pure.fn = "parseAndConvert" /\ pure.done) =>
        /\ pure.result.null <=> ~(\E i \in 1..Len(pure.args[1]) : pure.args[1][i] \in DigitSet)
        /\ \A n \in Numbers20, u \in Units20 :
               pure.args[1] = n.text \o u.text
                   => pure.result = Expected20(n, u, pure.args[2])
        /\ (pure.args = <<<<"2", " ", "y", "e", "a", "r", "s">>, <<"h", "o", "u", "r", "s">>>>)
               => pure.result = [null |-> FALSE, value |-> N(17520),
                                 unit |-> <<"h", "o", "u", "r", "s">>]
        /\ (pure.args = <<<<"4", ",", "5", "0", "0", " ", "l", "m">>, <<"l", "m">>>>)
               => pure.result = [null |-> FALSE, value |-> N(4500), unit |-> <<"l", "m">>]

\* A weight in pounds was converted to kilograms and rounded to hundredths.
C20_Witness ==
    /\ pure.fn = "parseAndConvert" /\ pure.done
    /\ pure.args = <<<<"5", " ", "l", "b">>, <<"k", "g">>>>
    /\ pure.result = [null |-> FALSE, value |-> Num(2270), unit |-> <<"k", "g">>]

\* ------------------------------------------------------------------ C21
\* getGeoVariants(brandName) has returned.
Expanded(brandName) ==
    pure.fn = "getGeoVariants" /\ pure.done /\ pure.args[1] = brandName

\* C21 (as stated): getGeoVariants("Acuity Brands") returns exactly 50
\* GeoVariants, all with currency USD and country USA.
C21_Original ==
    Expanded("Acuity Brands") =>
        /\ Len(pure.result) = 50
        /\ \A i \in 1..Len(pure.result) :
               pure.result[i].currency = "USD" /\ pure.result[i].country = "USA"

\* C21 (amended): getGeoVariants("Acuity Brands") returns exactly 56
\* GeoVariants: the 50 US states with USD and USA, in the order of the state
\* list, followed by ON, BC, AB, QC, MB and SK with CAD and Canada.
C21_AcuityVariants ==
    Expanded("Acuity Brands") =>
        /\ Len(pure.result) = 56
        /\ \A i \in 1..50 : pure.result[i] = GeoVariant(ALL_US_STATES[i], "USD", "USA")
        /\ \A i \in 1..6 :
               pure.result[50 + i] =
                   GeoVariant(<<"ON", "BC", "AB", "QC", "MB", "SK">>[i], "CAD", "Canada")

\* Acuity Brands was expanded, and Ontario is among its regions.
C21_Witness ==
    /\ Expanded("Acuity Brands")
    /\ \E i \in 1..Len(pure.result) : pure.result[i].state_province = "ON"

\* ------------------------------------------------------------------ C22
\* C22 (as stated): for a brand name that is not a key of the brand table,
\* getGeoVariants returns exactly 50 variants, one per US state, each with
\* USD and USA, and no Canada variant.
C22_Original ==
    \A brandName \in BrandNames \ DOMAIN BRAND_GEO :
        Expanded(brandName) =>
            /\ Len(pure.result) = 50
            /\ \A i \in 1..50 : pure.result[i] = GeoVariant(ALL_US_STATES[i], "USD", "USA")

\* ------------------------------------------------------------------ C23
\* The regions of a list of the brand's configuration.
Regions(list, full) ==
    IF list.all THEN {full[i] : i \in 1..Len(full)}
    ELSE {list.list[i] : i \in 1..Len(list.list)}

\* The variants of a result that have the given country.
VariantsOf(result, country) == {result[i] : i \in {j \in 1..Len(result) : result[j].country = country}}

\* C23: for every brand, getGeoVariants returns one {state, USD, USA} per
\* US state of the brand's list (all 50 when 'ALL') exactly when the brand
\* sells in the USA, one {province, CAD, Canada} per province of its list
\* (all 10 when 'ALL') exactly when it sells in Canada, and nothing else;
\* the currency is USD exactly for USA and CAD exactly for Canada, and no
\* region appears twice.
C23_OnePerRegion ==
    \A brandName \in BrandNames :
        Expanded(brandName) =>
            LET geo == getBrandGeo(brandName)
                usa == IF geo.sells_in_usa THEN Regions(geo.usa_states, ALL_US_STATES) ELSE {}
                canada == IF geo.sells_in_canada
                          THEN Regions(geo.canadian_provinces, ALL_CA_PROVINCES) ELSE {}
            IN  /\ VariantsOf(pure.result, "USA") = {GeoVariant(s, "USD", "USA") : s \in usa}
                /\ VariantsOf(pure.result, "Canada") = {GeoVariant(p, "CAD", "Canada") : p \in canada}
                /\ Len(pure.result) = Cardinality(usa) + Cardinality(canada)
                /\ \A i \in 1..Len(pure.result) :
                       /\ pure.result[i].country \in {"USA", "Canada"}
                       /\ pure.result[i].currency = "USD" <=> pure.result[i].country = "USA"
                       /\ pure.result[i].currency = "CAD" <=> pure.result[i].country = "Canada"
                /\ \A i, j \in 1..Len(pure.result) :
                       i # j => pure.result[i].state_province # pure.result[j].state_province
                /\ geo.usa_states.all /\ geo.sells_in_usa
                       => Cardinality(VariantsOf(pure.result, "USA")) = 50
                /\ geo.canadian_provinces.all /\ geo.sells_in_canada
                       => Cardinality(VariantsOf(pure.result, "Canada")) = 10

\* Lumenera, with an explicit list of seven states and all provinces, was
\* expanded into 17 variants.
C23_Witness ==
    /\ Expanded("Lumenera")
    /\ Len(pure.result) = 17
    /\ pure.result[1] = GeoVariant("CA", "USD", "USA")
    /\ pure.result[8] = GeoVariant("AB", "CAD", "Canada")

\* ------------------------------------------------------------------ C24
\* The regions of a country.
RegionsOf(country) ==
    CASE country = "USA" -> {ALL_US_STATES[i] : i \in 1..Len(ALL_US_STATES)}
      [] country = "Canada" -> {ALL_CA_PROVINCES[i] : i \in 1..Len(ALL_CA_PROVINCES)}
      [] OTHER -> {}

\* The product's geo hint admits a row for the region.
Admits(geo, region) ==
    IF TruthyStr(geo.state_province) THEN region = geo.state_province.str
    ELSE IF TruthyStr(geo.country) THEN region \in RegionsOf(geo.country.str)
    ELSE TRUE

\* C24: a raw product's geo hint takes precedence over the brand table:
\* every row processBrand looks up, hands to processProductChange or
\* inserts for the product is for the state of the hint, and with a state
\* hint the product is left after exactly one row; with only a country
\* hint no row is for a region of the other country.
C24_HintTakesPrecedence ==
    [][run.pc \in {"variant", "insert", "change"} =>
          LET raw == run.rawProducts[run.idx]
              variant == run.variantsToInsert[run.vidx]
          IN  /\ (run.pc = "variant" /\ run'.pc \in {"change", "insert"})
                    => Admits(raw.geo, variant.state_province)
              /\ (run.pc = "variant" /\ run'.pc = "change")
                    => Admits(raw.geo, products[inv'[1].productId].state_province)
              /\ Len(products') > Len(products)
                    => Admits(raw.geo, products'[Len(products')].state_province)
              /\ (run'.pc = "audit" /\ TruthyStr(raw.geo.state_province))
                    => run.vidx = 1
              /\ (run'.pc = "variant" /\ TruthyStr(raw.geo.state_province))
                    => run'.vidx = 1
    ]_vars

\* A product of the Canadian site, without a state, got its rows for the
\* four provinces of Cree Lighting and no row for a US state.
C24_Witness ==
    /\ run.pc = "audit"
    /\ run.brand.name = "Cree Lighting"
    /\ run.rawProducts[run.idx] = RawPool.canada
    /\ run.vidx = 4
    /\ {products[i].state_province : i \in 1..Len(products)} = {"ON", "BC", "AB", "QC"}
    /\ \A i \in 1..Len(products) : products[i].currency = "CAD"

\* =================================================================
\* BaseScraper.execute: the retry loop (SpecExecute)
\* =================================================================

\* The largest SCRAPE_MAX_RETRIES of the model.
MaxEnvRetries == 4

\* config.scraper.maxRetries: parseInt(process.env.SCRAPE_MAX_RETRIES ||
\* '3', 10), NaN for a text that is no number, or the integer written.
MaxRetriesValues ==
    {[nan |-> TRUE, n |-> 0]} \cup {[nan |-> FALSE, n |-> k] : k \in -1..MaxEnvRetries}

\* The product lists scrape() may return (by model).
ScrapeResults == {<<>>, <<"M1">>, <<"M1", "M2">>}

\* attempt <= maxRetries, attempt < maxRetries (false against NaN)
AtMost(attempt, maxRetries) == ~maxRetries.nan /\ attempt <= maxRetries.n
Below(attempt, maxRetries) == ~maxRetries.nan /\ attempt < maxRetries.n

\* Math.pow(2, attempt) * 1000
Backoff(attempt) == (2 ^ attempt) * 1000

quiet == <<storage, inv, hist, calls, env, pure, brandVars, user_roles, rpc>>

\* for (...; attempt <= maxRetries; ...) { try { (lines 301-303)
Attempt ==
    /\ retry.pc = "loop"
    /\ AtMost(retry.attempt, retry.maxRetries)
    /\ retry' = [retry EXCEPT !.pc = "try"]
    /\ UNCHANGED quiet

\* The loop is left without a return or a throw: return [] (line 327).
ReturnEmpty ==
    /\ retry.pc = "loop"
    /\ ~AtMost(retry.attempt, retry.maxRetries)
    /\ retry' = [retry EXCEPT !.pc = "returned", !.products = <<>>]
    /\ UNCHANGED quiet

\* new URL(websiteUrl) throws before scrape() is called (line 306).
UrlThrows ==
    /\ retry.pc = "try"
    /\ retry' = [retry EXCEPT !.pc = "catch", !.err = retry.attempt]
    /\ UNCHANGED quiet

\* scrape() returns its products, and execute returns them (lines 309-311).
ScrapeReturns ==
    /\ retry.pc = "try"
    /\ \E products_ \in ScrapeResults :
          retry' = [retry EXCEPT !.pc = "returned", !.scrapes = @ + 1, !.scraped = TRUE,
                                 !.products = products_]
    /\ UNCHANGED quiet

\* scrape() throws (line 312); the error is that of the attempt.
ScrapeThrows ==
    /\ retry.pc = "try"
    /\ retry' = [retry EXCEPT !.pc = "catch", !.scrapes = @ + 1, !.err = retry.attempt]
    /\ UNCHANGED quiet

\* if (attempt < maxRetries) { await sleep(backoff) }, attempt++ (316-319)
Sleep ==
    /\ retry.pc = "catch"
    /\ Below(retry.attempt, retry.maxRetries)
    /\ retry' = [retry EXCEPT !.pc = "loop", !.attempt = @ + 1,
                              !.slept = Append(@, Backoff(retry.attempt))]
    /\ UNCHANGED quiet

\* else { throw err } (lines 320-323)
GiveUp ==
    /\ retry.pc = "catch"
    /\ ~Below(retry.attempt, retry.maxRetries)
    /\ retry' = [retry EXCEPT !.pc = "thrown", !.thrown = retry.err]
    /\ UNCHANGED quiet

InitExecute ==
    /\ InitStore
    /\ env = [active |-> {}, faults |-> FALSE]
    /\ pure = NoPure
    /\ retry \in {[NoRetry EXCEPT !.pc = "loop", !.maxRetries = m, !.attempt = 1] :
                    m \in MaxRetriesValues}
    /\ user_roles = <<>>
    /\ rpc = [s \in Sessions |-> NoRpc]

execute ==
    \/ Attempt \/ ReturnEmpty \/ UrlThrows \/ ScrapeReturns \/ ScrapeThrows
    \/ Sleep \/ GiveUp

\* Every step of execute that can be taken is taken: scrape() and sleep()
\* come back.
SpecExecute == InitExecute /\ [][execute]_vars /\ WF_vars(execute)

\* ------------------------------------------------------------------ C25
\* C25 (as stated): execute makes at most maxRetries calls of scrape(),
\* returns a product list only after a scrape that succeeded, sleeps
\* 2^attempt seconds after each failed attempt that is followed by another,
\* throws only after maxRetries failed attempts, the last error, and always
\* comes to an end.
C25_Original ==
    /\ [](/\ retry.scrapes <= MaxOf({0, retry.maxRetries.n})
          /\ retry.pc = "returned" => retry.scraped
          /\ retry.slept = [i \in 1..Len(retry.slept) |-> (2 ^ i) * 1000]
          /\ retry.pc = "thrown"
                => /\ retry.attempt = retry.maxRetries.n
                   /\ retry.thrown = retry.maxRetries.n
                   /\ ~retry.scraped)
    /\ <>(retry.pc \in {"returned", "thrown"})

\* =================================================================
\* claim_first_admin: the setup page's RPC (SpecSetup)
\* =================================================================

\* The user_roles table before the setup page is used: empty, or with a
\* role given by hand (docs/setup-guide.md 5.1, 5.2) to another user.
InitRoles ==
    {<<>>, <<[user_id |-> 0, role |-> "admin"]>>, <<[user_id |-> 0, role |-> "viewer"]>>}

\* SELECT COUNT(*) FROM user_roles WHERE role = 'admin': the rows committed
\* when the statement starts (READ COMMITTED).
AdminCount == Cardinality({i \in 1..Len(user_roles) : user_roles[i].role = "admin"})

idle == <<storage, inv, hist, calls, env, pure, brandVars, retry>>

\* rpc('claim_first_admin', {target_user_id}) is called (part_009 65-67).
ClaimFirstAdmin(s) ==
    /\ rpc[s].pc \in {"idle", "returned"}
    /\ rpc' = [rpc EXCEPT ![s] = [NoRpc EXCEPT !.pc = "select",
                                               !.admin_existed = AdminCount > 0,
                                               !.email_confirmed = rpc[s].email_confirmed]]
    /\ UNCHANGED <<user_roles, idle>>

\* SELECT COUNT(*) INTO existing_admin_count (lines 14-17).
Guard(s) == AdminCount

\* The guard: reject if any admin already exists (lines 14-21).
SelectCount(s) ==
    /\ rpc[s].pc = "select"
    /\ rpc' = [rpc EXCEPT ![s] =
                  IF Guard(s) > 0
                  THEN [@ EXCEPT !.pc = "returned", !.existing_admin_count = Guard(s),
                                 !.ret = [ok |-> FALSE, reason |-> "admin_exists"]]
                  ELSE [@ EXCEPT !.pc = "insert", !.existing_admin_count = 0]]
    /\ UNCHANGED <<user_roles, idle>>

\* INSERT INTO user_roles (user_id, role) VALUES (target_user_id, 'admin')
\* ON CONFLICT DO NOTHING (lines 24-26); the row is the transaction's own
\* until it commits.
InsertRole(s) ==
    /\ rpc[s].pc = "insert"
    /\ rpc' = [rpc EXCEPT ![s] =
                  [@ EXCEPT !.pc = "update",
                            !.inserted = ~(\E i \in 1..Len(user_roles) :
                                              user_roles[i] = [user_id |-> s, role |-> "admin"])]]
    /\ UNCHANGED <<user_roles, idle>>

\* UPDATE auth.users SET email_confirmed_at = now() (lines 29-32).
ConfirmEmail(s) ==
    /\ rpc[s].pc = "update"
    /\ rpc' = [rpc EXCEPT ![s] = [@ EXCEPT !.pc = "return", !.email_confirmed = TRUE]]
    /\ UNCHANGED <<user_roles, idle>>

\* RETURN jsonb_build_object('ok', true) (line 34): the call's transaction
\* commits.
ReturnOk(s) ==
    /\ rpc[s].pc = "return"
    /\ user_roles' = IF rpc[s].inserted
                     THEN Append(user_roles, [user_id |-> s, role |-> "admin"])
                     ELSE user_roles
    /\ rpc' = [rpc EXCEPT ![s] = [@ EXCEPT !.pc = "returned", !.inserted = FALSE,
                                           !.ret = [ok |-> TRUE, reason |-> ""]]]
    /\ UNCHANGED idle

claim_first_admin(s) ==
    ClaimFirstAdmin(s) \/ SelectCount(s) \/ InsertRole(s) \/ ConfirmEmail(s) \/ ReturnOk(s)

InitSetup ==
    /\ InitStore
    /\ env = [active |-> {}, faults |-> FALSE]
    /\ pure = NoPure
    /\ retry = NoRetry
    /\ user_roles \in InitRoles
    /\ rpc = [s \in Sessions |-> NoRpc]

NextSetup == \E s \in Sessions : claim_first_admin(s)

SpecSetup == InitSetup /\ [][NextSetup]_vars

\* ------------------------------------------------------------------ C26
\* The admin roles granted through claim_first_admin.
Granted == {i \in 1..Len(user_roles) :
               user_roles[i].role = "admin" /\ user_roles[i].user_id \in Sessions}

\* C26 (as stated): whatever the calls of claim_first_admin for different
\* users and their interleaving, at most one admin role is granted through
\* it, and a call made while an admin exists returns ok = false with
\* reason admin_exists and grants nothing.
C26_Original ==
    /\ Cardinality(Granted) <= 1
    /\ \A s \in Sessions :
           rpc[s].admin_existed
               => /\ ~rpc[s].inserted
                  /\ rpc[s].pc = "returned"
                        => rpc[s].ret = [ok |-> FALSE, reason |-> "admin_exists"]

\* ------------------------------------------------------------------ C27
\* The stored hash of a row is the hash of the snapshot of the row.
Matches(row) == row.spec_hash = SomeStr(generateSpecHash(buildSpecSnapshot(row)))

\* The newest version of a product.
Newest(productId) ==
    LET S == {i \in 1..Len(versions') : versions'[i].product_id = productId}
    IN  versions'[CHOOSE i \in S : \A j \in S : versions'[j].version_number
                                                    <= versions'[i].version_number]

\* C27 (as stated): the spec_hash of a products row the pipeline writes is
\* generateSpecHash(buildSpecSnapshot(row)) of the row as stored, right
\* after its insert and after every recorded change.
C27_Original ==
    [][/\ Len(products') > Len(products) => Matches(products'[Len(products')])
       /\ \A i \in 1..Len(products) :
              products'[i].spec_hash # products[i].spec_hash => Matches(products'[i])
    ]_vars

\* C27 (amended): the spec_hash the pipeline stores is the hash of the
\* normalized incoming snapshot: right after the insert, that of the
\* payload inserted; after a recorded change (the update succeeded), that
\* of the incoming specs, which is the spec_hash and the snapshot of the
\* product's newest version. No other step changes a stored hash.
C27_HashOfIncoming ==
    [][/\ Len(products') > Len(products)
            => LET geoPayload == [f |-> [k \in FieldSet |-> Get(run.normalized, k)]]
               IN  products'[Len(products')].spec_hash =
                       SomeStr(generateSpecHash(buildSpecSnapshot(geoPayload)))
       /\ (inv[1].pc = "update" /\ inv'[1].updated)
            => LET c == inv[1]
                   newHash == generateSpecHash(buildSpecSnapshot(c.incoming))
               IN  /\ products'[c.productId].spec_hash = SomeStr(newHash)
                   /\ Newest(c.productId).spec_hash = newHash
                   /\ Newest(c.productId).snapshot = JsonBody(buildSpecSnapshot(c.incoming))
       /\ \A i \in 1..Len(products) :
              products'[i].spec_hash # products[i].spec_hash
                  => inv[1].pc = "update" /\ inv[1].productId = i
    ]_vars

\* A change of an existing row was recorded: the row carries the hash of
\* its newest version, and its fields, those of its insert, hash otherwise.
C27_Witness ==
    /\ \E i \in 1..Len(products) :
          /\ ~Matches(products[i])
          /\ \E v \in 1..Len(versions) :
                /\ versions[v].product_id = i
                /\ products[i].spec_hash = SomeStr(versions[v].spec_hash)
    /\ inv[1].pc = "returned" /\ inv[1].updated

\* ------------------------------------------------------------------ C28
\* The versions that precede the version v of its product by one.
Previous(v) ==
    {u \in 1..Len(versions) :
        /\ versions[u].product_id = versions[v].product_id
        /\ versions[u].version_number = versions[v].version_number - 1}

\* C28 (as stated): a change_logs row written with version n >= 2 of a
\* product has as old_value the field's value in the snapshot of version
\* n - 1 and as new_value its value in the snapshot of version n, and when
\* the logs of version n were written they name exactly the fields that
\* differ between the two snapshots.
C28_Original ==
    \A v \in 1..Len(versions) : \A u \in Previous(v) :
        /\ \A i \in LogsOf(v) :
              /\ change_logs[i].old_value
                    = Shown(Get(versions[u].snapshot, change_logs[i].field_name))
              /\ change_logs[i].new_value
                    = Shown(Get(versions[v].snapshot, change_logs[i].field_name))
        /\ LogsOf(v) # {}
              => {change_logs[i].field_name : i \in LogsOf(v)}
                    = {k \in FieldSet : Shown(Get(versions[u].snapshot, k))
                                            # Shown(Get(versions[v].snapshot, k))}

\* ---------------------------------------------------------------------
\* C29: starting from an empty products table, after any sequence of
\* scrape runs, storage failures included, there is at most one products
\* row per (brand, model, state_province): a product/region that has a
\* row is never inserted a second time.
SameRegion(i, j) ==
    /\ products[i].brand = products[j].brand
    /\ products[i].model = products[j].model
    /\ products[i].state_province = products[j].state_province
\* The rows the runs have inserted so far, as main and processBrand count
\* them; the table started empty when they are all its rows.
Inserted == run.totalStats.newProducts + run.stats.newProducts
C29_Original ==
    Len(products) = Inserted
        => \A i, j \in 1..Len(products) : SameRegion(i, j) => i = j

\* ---------------------------------------------------------------------
\* C30: every scrape_runs record that processBrand creates with status
\* 'running' has reached a terminal status when processBrand returns:
\* 'completed' with the found/new/changed counts, or 'failed' with an
\* error message; no path returns leaving the run in status 'running'.
Terminal(record, stats) ==
    \/ /\ record.status = "completed"
       /\ record.products_found = stats.found
       /\ record.products_new = stats.newProducts
       /\ record.products_changed = stats.changed
    \/ /\ record.status = "failed"
       /\ ~record.error_message.null
C30_Original ==
    (run.pc = "done" /\ run.scrapeRunId # 0)
        => Terminal(scrape_runs[run.scrapeRunId], run.stats)

====
